---- MODULE Spec2Model ----
(***************************************************************************)
(* Playback scheduler of the yeelight script runner                        *)
(* (yeelight/script.go: ScriptRunner.RunScript, StopScript, runLoop) and   *)
(* the front end that calls it (main.go: handleRunScript,                  *)
(* handleStopScript, runCLIMode).                                          *)
(*                                                                         *)
(* Every lock..unlock section of sr.mu is one atomic step.  A call of a    *)
(* device method (SetOn, SetDirectMode, SetMatrix, SetOff) is one step     *)
(* that appends the command to devlog; whether it returned an error is a   *)
(* free choice of that step.  Time is abstracted: a ticker or timer that   *)
(* is armed may fire at any moment and time.Sleep may end at any moment    *)
(* (a device command takes up to the connect and response timeouts, which  *)
(* exceed the 100 ms of StopScript's sleep); Go's select picks any of the  *)
(* cases that are ready.                                                   *)
(*                                                                         *)
(* Script compiler (yeelight/script.go: ParseScript and its helpers, with  *)
(* the matrix and color primitives of the device package).  The file is a  *)
(* sequence of lines, a line the sequence of its tokens, a token a         *)
(* sequence of characters; one iteration of the scanner loop is one step.  *)
(* ParseSpec runs the compiler alone on every file ParseInit draws.        *)
(*                                                                         *)
(* Primitives (device package: Color, ColorMatrix, Vector; script.go:      *)
(* drawLine, shiftMatrix, dimMatrix; main.go: the parameters of a run      *)
(* request).  LibSpec makes one call of one primitive on arguments that    *)
(* LibInit draws, a step being the whole call.                             *)
(***************************************************************************)
EXTENDS Integers, Sequences, FiniteSets, TLC

\* ------------------------------------------------------------ bounds ----
MaxSessions == 2     \* RunScript calls that get past the running check
MaxRenders == 3      \* frames rendered by one session
MaxFrames == 2       \* frames of the longest script file
MaxLines == 3        \* lines of the longest file given to the compiler
MaxCommands == 2     \* SendCommand calls on one Yeelight value

\* the goroutines that call the scheduler: two concurrent callers (HTTP
\* handler goroutines, or the main goroutine of main.go:95 and main.go:270)
Callers == {1, 2}
Sessions == 1..MaxSessions

\* A script file is named by what ParseScript makes of it: 0 is a file that
\* does not compile (unreadable, a bad line, or no frame), n >= 1 a file
\* compiling to n frames.
ScriptFiles == 0..MaxFrames

\* main.go:167  intervalMs := 500
DefaultIntervalMs == 500
\* interval arguments of a direct call: 0 (static) or the 500 ms default
Intervals == {0, DefaultIntervalMs}
\* timeout arguments in seconds: 0 (none) or 5
Timeouts == {0, 5}
\* the interval query parameter of an HTTP run request; -1: not given
QueryIntervals == {-1, 0, 200}

NoScript == [Name |-> 0, Frames |-> << >>]

VARIABLES
    isRunning,      \* sr.isRunning
    currentScript,  \* sr.currentScript
    caller,         \* per caller: position in RunScript/StopScript, arguments, results
    loop,           \* per session: the runLoop goroutine, its arguments and locals
    nsessions,      \* number of RunScript calls that set isRunning so far
    devlog          \* the device commands issued since the running flag was
                    \* last taken, in order, each with the session issuing it

vars == <<isRunning, currentScript, caller, loop, nsessions, devlog>>

VARIABLES
    input,          \* the lines of the file ParseScript reads
    lineNum,        \* lineNum
    hasContent,     \* hasContent
    arrays,         \* the backing arrays of the matrices alive in ParseScript
    currentMatrix,  \* currentMatrix.Colors: an index into arrays
    frames,         \* script.Frames[k].Colors: indices into arrays
    result,         \* where ParseScript is, and what it returned
    offGrid         \* some SetHex so far got a vector with a row or column
                    \* outside 0..4

cvars == <<input, lineNum, hasContent, arrays, currentMatrix, frames, result,
           offGrid>>

VARIABLES
    call,           \* the primitive called and its arguments
    ret             \* whether the call has returned, and what

lvars == <<call, ret>>

VARIABLES
    cli,            \* the main goroutine of the command-line mode (runCLIMode)
    link            \* the device link: SendCommand calls and their readers

pvars == <<cli, link>>

IdleCaller ==
    [pc |-> "idle", op |-> "none", runErr |-> "none", stopErr |-> "none",
     sid |-> 0, observed |-> 0, seen |-> 0, cancelled |-> 0]

NoLoop ==
    [pc |-> "none", interval |-> 0, timeout |-> 0, frameIndex |-> 0,
     errPrinted |-> FALSE]

NilResult == [pc |-> "scan", err |-> "nil", line |-> 0, script |-> << >>]

\* no ParseScript call is modelled line by line
CompilerIdle ==
    /\ input = << >>
    /\ lineNum = 0
    /\ hasContent = FALSE
    /\ arrays = << >>
    /\ currentMatrix = 0
    /\ frames = << >>
    /\ result = [NilResult EXCEPT !.pc = "idle"]
    /\ offGrid = FALSE

\* the program is not in command-line mode
CliIdle == cli = [pc |-> "none", interval |-> 0, timeout |-> 0]

\* no SendCommand call is modelled step by step
NoLink ==
    [pc |-> "none", Persistent |-> FALSE, Conn |-> 0, conns |-> << >>,
     cmds |-> << >>]

LinkIdle == link = NoLink

\* no primitive is called on its own
LibIdle ==
    /\ call = [fn |-> "none"]
    /\ ret = [done |-> FALSE]

\* no RunScript or StopScript call has been made
SchedulerIdle ==
    /\ isRunning = FALSE
    /\ currentScript = NoScript
    /\ caller = [c \in Callers |-> IdleCaller]
    /\ loop = [s \in Sessions |-> NoLoop]
    /\ nsessions = 0
    /\ devlog = << >>

Init == SchedulerIdle /\ CompilerIdle /\ LibIdle /\ CliIdle /\ LinkIdle

\* ----------------------------------------------------------- helpers ----
\* ParseScript as the scheduler sees it: an error, or a Script with >= 1 frame
ParseScriptFile(f) ==
    IF f < 1
    THEN [err |-> TRUE, script |-> NoScript]
    ELSE [err |-> FALSE,
          script |-> [Name |-> f, Frames |-> [k \in 1..f |-> <<f, k - 1>>]]]

Cmd(s, name, arg) == [sid |-> s, cmd |-> name, arg |-> arg]

\* the frames session s handed to SetMatrix so far, in order
FramesOf(s) == SelectSeq(devlog, LAMBDA e : e.sid = s /\ e.cmd = "frame")
CmdsOf(s) == SelectSeq(devlog, LAMBDA e : e.sid = s)

\* the session that holds the running flag at this moment
CurrentSession == nsessions

LoopActive(s) == loop[s].pc \notin {"none", "done"}

\* calls in progress that may still get past RunScript's running check
Pending ==
    Cardinality({c \in Callers :
        /\ caller[c].op \in {"run", "http"}
        /\ caller[c].pc \in {"stop_lock", "stop_send", "stop_sleep", "run_lock"}})

\* script.go:383  sr.currentScript.Frames[frameIndex] (Go panics past the end)
FrameAt(script, i) ==
    IF i >= 0 /\ i < Len(script.Frames) THEN script.Frames[i + 1] ELSE <<-1, i>>

NextFrameIndexNoWrap(i, n) == i + 1

\* script.go:389  frameIndex = (frameIndex + 1) % len(sr.currentScript.Frames)
NextFrameIndex(i, n) == (i + 1) % n

IsStaticNever(interval) == FALSE

\* script.go:361  if interval == 0
IsStatic(interval) == interval = 0

TimeoutArmedAlways(timeout) == TRUE

\* script.go:351  if timeout > 0 { timeoutChan = time.After(timeout) }
TimeoutArmed(timeout) == timeout > 0

\* main.go:167-174  the interval an HTTP run request hands to RunScript
HttpInterval(q) == IF q > 0 THEN q ELSE DefaultIntervalMs

\* a caller whose StopScript call returns err: handleRunScript drops the
\* error and goes on to RunScript (main.go:192-198), the others use it
\* (main.go:216, 280); cancelled is the session whose loop took the signal
AfterStop(rec, err, cancelled) ==
    IF rec.op = "http"
    THEN [IdleCaller EXCEPT !.pc = "run_lock", !.op = "http", !.stopErr = err]
    ELSE [IdleCaller EXCEPT !.pc = "ret", !.op = rec.op, !.stopErr = err,
                            !.cancelled = cancelled]

\* a caller whose RunScript call returns err
AfterRun(rec, err) ==
    [IdleCaller EXCEPT !.pc = "ret", !.op = rec.op, !.stopErr = rec.stopErr,
                       !.runErr = err]

\* ----------------------------------------------------------- callers ----
\* The arguments of a call are drawn in the step that first reads them: the
\* file where ParseScript opens it, interval and timeout where runLoop is
\* launched.

\* main.go:270 (runCLIMode) or any direct caller: RunScript(file, interval, timeout)
CallRunScript(c) ==
    /\ caller[c].pc = "idle"
    /\ nsessions + Pending < MaxSessions
    /\ caller' = [caller EXCEPT ![c] =
          [IdleCaller EXCEPT !.pc = "run_lock", !.op = "run"]]
    /\ UNCHANGED <<isRunning, currentScript, loop, nsessions, devlog, cvars, lvars, pvars>>

\* main.go:209-216 (handleStopScript), main.go:95, main.go:280: StopScript()
CallStopScript(c) ==
    /\ caller[c].pc = "idle"
    /\ caller' = [caller EXCEPT ![c] =
          [IdleCaller EXCEPT !.pc = "stop_lock", !.op = "stop"]]
    /\ UNCHANGED <<isRunning, currentScript, loop, nsessions, devlog, cvars, lvars, pvars>>

\* main.go:160-192: an HTTP run request; when os.Stat finds no file it is
\* answered 404, otherwise StopScript is called (its error ignored) and then
\* RunScript
handleRunScript(c, exists) ==
    /\ caller[c].pc = "idle"
    /\ IF ~exists
       THEN caller' = [caller EXCEPT ![c] =
               [IdleCaller EXCEPT !.pc = "ret", !.op = "http",
                                  !.runErr = "notfound"]]
       ELSE /\ nsessions + Pending < MaxSessions
            /\ caller' = [caller EXCEPT ![c] =
                  [IdleCaller EXCEPT !.pc = "stop_lock", !.op = "http"]]
    /\ UNCHANGED <<isRunning, currentScript, loop, nsessions, devlog, cvars, lvars, pvars>>

\* the interval arguments a caller of kind op can pass to RunScript:
\* main.go:195 for an HTTP request, main.go:251-256 for the command line
IntervalArgs(op) ==
    IF op = "http" THEN {HttpInterval(q) : q \in QueryIntervals} ELSE Intervals

\* the call has returned and its result has been used
Return(c) ==
    /\ caller[c].pc = "ret"
    /\ caller' = [caller EXCEPT ![c] = IdleCaller]
    /\ UNCHANGED <<isRunning, currentScript, loop, nsessions, devlog, cvars, lvars, pvars>>

\* --------------------------------------------------------- RunScript ----
AlreadyRunningNever == FALSE

\* script.go:284  if sr.isRunning
AlreadyRunning == isRunning

RunScriptCheckAfterSetOn(c) ==
    /\ caller[c].pc = "run_lock"
    /\ IF isRunning
       THEN /\ caller' = [caller EXCEPT ![c] = AfterRun(caller[c], "already")]
            /\ devlog' = Append(devlog, Cmd(nsessions, "on", << >>))
            /\ UNCHANGED <<isRunning, nsessions>>
       ELSE /\ isRunning' = TRUE
            /\ nsessions' = nsessions + 1
            /\ devlog' = <<Cmd(nsessions + 1, "on", << >>)>>
            /\ caller' = [caller EXCEPT ![c].pc = "run_parse",
                                        ![c].sid = nsessions + 1]
    /\ UNCHANGED <<currentScript, loop, cvars, lvars, pvars>>

\* script.go:283-289
RunScriptCheck(c) ==
    /\ caller[c].pc = "run_lock"
    /\ IF AlreadyRunning
       THEN /\ caller' = [caller EXCEPT ![c] = AfterRun(caller[c], "already")]
            /\ UNCHANGED <<isRunning, nsessions>>
            /\ UNCHANGED devlog
       ELSE /\ isRunning' = TRUE
            /\ nsessions' = nsessions + 1
            /\ devlog' = << >>
            /\ caller' = [caller EXCEPT ![c].pc = "run_parse",
                                        ![c].sid = nsessions + 1]
    /\ UNCHANGED <<currentScript, loop, cvars, lvars, pvars>>

\* script.go:292-300
RunScriptParse(c) ==
    /\ caller[c].pc = "run_parse"
    /\ \E f \in ScriptFiles :
          LET r == ParseScriptFile(f) IN
          IF r.err
          THEN /\ isRunning' = FALSE
               /\ caller' = [caller EXCEPT ![c] = AfterRun(caller[c], "parse")]
               /\ UNCHANGED currentScript
          ELSE /\ currentScript' = r.script
               /\ caller' = [caller EXCEPT ![c].pc = "run_on"]
               /\ UNCHANGED isRunning
    /\ UNCHANGED <<loop, nsessions, devlog, cvars, lvars, pvars>>

RunScriptSetOnSkipsDirectMode(c) ==
    /\ caller[c].pc = "run_on"
    /\ \E ok \in BOOLEAN :
          /\ devlog' = Append(devlog, Cmd(caller[c].sid, "on", << >>))
          /\ IF ok
             THEN /\ caller' = [caller EXCEPT ![c].pc = "run_go"]
                  /\ UNCHANGED isRunning
             ELSE /\ isRunning' = FALSE
                  /\ caller' = [caller EXCEPT ![c] = AfterRun(caller[c], "poweron")]
    /\ UNCHANGED <<currentScript, loop, nsessions, cvars, lvars, pvars>>

\* script.go:302-308
RunScriptSetOn(c) ==
    /\ caller[c].pc = "run_on"
    /\ \E ok \in BOOLEAN :
          /\ devlog' = Append(devlog, Cmd(caller[c].sid, "on", << >>))
          /\ IF ok
             THEN /\ caller' = [caller EXCEPT ![c].pc = "run_direct"]
                  /\ UNCHANGED isRunning
             ELSE /\ isRunning' = FALSE
                  /\ caller' = [caller EXCEPT ![c] = AfterRun(caller[c], "poweron")]
    /\ UNCHANGED <<currentScript, loop, nsessions, cvars, lvars, pvars>>

RunScriptSetDirectModeKeepsFlag(c) ==
    /\ caller[c].pc = "run_direct"
    /\ \E ok \in BOOLEAN :
          /\ devlog' = Append(devlog, Cmd(caller[c].sid, "direct", << >>))
          /\ IF ok
             THEN caller' = [caller EXCEPT ![c].pc = "run_go"]
             ELSE caller' = [caller EXCEPT ![c] = AfterRun(caller[c], "direct")]
    /\ UNCHANGED <<isRunning, currentScript, loop, nsessions, cvars, lvars, pvars>>

\* script.go:310-316
RunScriptSetDirectMode(c) ==
    /\ caller[c].pc = "run_direct"
    /\ \E ok \in BOOLEAN :
          /\ devlog' = Append(devlog, Cmd(caller[c].sid, "direct", << >>))
          /\ IF ok
             THEN /\ caller' = [caller EXCEPT ![c].pc = "run_go"]
                  /\ UNCHANGED isRunning
             ELSE /\ isRunning' = FALSE
                  /\ caller' = [caller EXCEPT ![c] = AfterRun(caller[c], "direct")]
    /\ UNCHANGED <<currentScript, loop, nsessions, cvars, lvars, pvars>>

\* script.go:318-321  go sr.runLoop(interval, timeout); return nil
RunScriptGo(c) ==
    /\ caller[c].pc = "run_go"
    /\ \E i \in IntervalArgs(caller[c].op), t \in Timeouts :
          loop' = [loop EXCEPT ![caller[c].sid] =
             [pc |-> "begin", interval |-> i, timeout |-> t, frameIndex |-> 0,
              errPrinted |-> FALSE]]
    /\ caller' = [caller EXCEPT ![c] = AfterRun(caller[c], "nil")]
    /\ UNCHANGED <<isRunning, currentScript, nsessions, devlog, cvars, lvars, pvars>>

\* -------------------------------------------------------- StopScript ----
NotRunningNever == FALSE

\* script.go:327  if !sr.isRunning
NotRunning == ~isRunning

\* script.go:326-331
StopScriptCheck(c) ==
    /\ caller[c].pc = "stop_lock"
    /\ IF NotRunning
       THEN caller' = [caller EXCEPT ![c] = AfterStop(caller[c], "notrunning", 0)]
       ELSE caller' = [caller EXCEPT ![c].pc = "stop_send",
                                     ![c].observed = CurrentSession,
                                     ![c].seen = Len(FramesOf(CurrentSession))]
    /\ UNCHANGED <<isRunning, currentScript, loop, nsessions, devlog, cvars, lvars, pvars>>

\* script.go:336-339  time.Sleep(100 * time.Millisecond); return nil
StopScriptSleep(c) ==
    /\ caller[c].pc = "stop_sleep"
    /\ caller' = [caller EXCEPT ![c] =
          AfterStop(caller[c], "nil", caller[c].cancelled)]
    /\ UNCHANGED <<isRunning, currentScript, loop, nsessions, devlog, cvars, lvars, pvars>>

\* ----------------------------------------------------------- runLoop ----
\* script.go:362-364, 383-386: SetMatrix returns nil or an error; on an error
\* the loop prints "Error setting matrix" and goes on. errPrinted tells that
\* the session has printed it for at least one render.
ErrPrinted(s, ok) == loop[s].errPrinted \/ ~ok

\* script.go:360-365: static mode renders Frames[0]
runLoopStatic(s) ==
    /\ loop[s].pc = "begin"
    /\ IsStatic(loop[s].interval)
    /\ devlog' = Append(devlog, Cmd(s, "frame", FrameAt(currentScript, 0)))
    /\ \E ok \in BOOLEAN :
          loop' = [loop EXCEPT ![s].pc = "wait",
                               ![s].errPrinted = ErrPrinted(s, ok)]
    /\ UNCHANGED <<isRunning, currentScript, caller, nsessions, cvars, lvars, pvars>>

runLoopRenderReturnsOnError(s) ==
    /\ \/ loop[s].pc = "begin" /\ ~IsStatic(loop[s].interval)
       \/ loop[s].pc = "render"
    /\ devlog' = Append(devlog,
                      Cmd(s, "frame", FrameAt(currentScript, loop[s].frameIndex)))
    /\ \E ok \in BOOLEAN :
          loop' = [loop EXCEPT
             ![s].pc = IF ok THEN "select" ELSE "off",
             ![s].errPrinted = ErrPrinted(s, ok),
             ![s].frameIndex = NextFrameIndex(loop[s].frameIndex,
                                              Len(currentScript.Frames))]
    /\ UNCHANGED <<isRunning, currentScript, caller, nsessions, cvars, lvars, pvars>>

\* script.go:376-389: render Frames[frameIndex], then advance frameIndex
runLoopRender(s) ==
    /\ \/ loop[s].pc = "begin" /\ ~IsStatic(loop[s].interval)
       \/ loop[s].pc = "render"
    /\ devlog' = Append(devlog,
                      Cmd(s, "frame", FrameAt(currentScript, loop[s].frameIndex)))
    /\ \E ok \in BOOLEAN :
          loop' = [loop EXCEPT
             ![s].pc = "select",
             ![s].errPrinted = ErrPrinted(s, ok),
             ![s].frameIndex = NextFrameIndex(loop[s].frameIndex,
                                              Len(currentScript.Frames))]
    /\ UNCHANGED <<isRunning, currentScript, caller, nsessions, cvars, lvars, pvars>>

\* script.go:393-394  case <-ticker.C: continue
runLoopTick(s) ==
    /\ loop[s].pc = "select"
    /\ Len(FramesOf(s)) < MaxRenders
    /\ loop' = [loop EXCEPT ![s].pc = "render"]
    /\ UNCHANGED <<isRunning, currentScript, caller, nsessions, devlog, cvars, lvars, pvars>>

\* script.go:334 with script.go:369-370 or 395-396: stopChan is unbuffered, so
\* caller c's send and the loop's receive are one step
runLoopStop(s, c) ==
    /\ loop[s].pc \in {"wait", "select"}
    /\ caller[c].pc = "stop_send"
    /\ loop' = [loop EXCEPT ![s].pc = "off"]
    /\ caller' = [caller EXCEPT ![c].pc = "stop_sleep", ![c].cancelled = s]
    /\ UNCHANGED <<isRunning, currentScript, nsessions, devlog, cvars, lvars, pvars>>

runLoopTimeoutSkipsSetOff(s) ==
    /\ loop[s].pc \in {"wait", "select"}
    /\ loop[s].timeout > 0
    /\ loop' = [loop EXCEPT ![s].pc = "clear"]
    /\ UNCHANGED <<isRunning, currentScript, caller, nsessions, devlog, cvars, lvars, pvars>>

runLoopTimeoutClearsFlagFirst(s) ==
    /\ loop[s].pc \in {"wait", "select"}
    /\ TimeoutArmed(loop[s].timeout)
    /\ isRunning' = FALSE
    /\ loop' = [loop EXCEPT ![s].pc = "off"]
    /\ UNCHANGED <<currentScript, caller, nsessions, devlog, cvars, lvars, pvars>>

\* script.go:371-372, 397-398  case <-timeoutChan: return
runLoopTimeout(s) ==
    /\ loop[s].pc \in {"wait", "select"}
    /\ TimeoutArmed(loop[s].timeout)
    /\ loop' = [loop EXCEPT ![s].pc = "off"]
    /\ UNCHANGED <<isRunning, currentScript, caller, nsessions, devlog, cvars, lvars, pvars>>

\* script.go:355-358  deferred: sr.yeelight.SetOff(...)
runLoopSetOff(s) ==
    /\ loop[s].pc = "off"
    /\ devlog' = Append(devlog, Cmd(s, "off", << >>))
    /\ loop' = [loop EXCEPT ![s].pc = "clear"]
    /\ UNCHANGED <<isRunning, currentScript, caller, nsessions, cvars, lvars, pvars>>

\* script.go:344-348  deferred: sr.isRunning = false; the goroutine ends
runLoopClear(s) ==
    /\ loop[s].pc = "clear"
    /\ isRunning' = FALSE
    /\ loop' = [loop EXCEPT ![s] = [NoLoop EXCEPT !.pc = "done"]]
    /\ UNCHANGED <<currentScript, caller, nsessions, devlog, cvars, lvars, pvars>>

\* ----------------------------------------------------- specification ----
Next ==
    \/ \E c \in Callers : CallRunScript(c)
    \/ \E c \in Callers : CallStopScript(c)
    \/ \E c \in Callers, exists \in BOOLEAN : handleRunScript(c, exists)
    \/ \E c \in Callers : Return(c)
    \/ \E c \in Callers : RunScriptCheck(c)
    \/ \E c \in Callers : RunScriptParse(c)
    \/ \E c \in Callers : RunScriptSetOn(c)
    \/ \E c \in Callers : RunScriptSetDirectMode(c)
    \/ \E c \in Callers : RunScriptGo(c)
    \/ \E c \in Callers : StopScriptCheck(c)
    \/ \E c \in Callers : StopScriptSleep(c)
    \/ \E s \in Sessions : runLoopStatic(s)
    \/ \E s \in Sessions : runLoopRender(s)
    \/ \E s \in Sessions : runLoopTick(s)
    \/ \E s \in Sessions, c \in Callers : runLoopStop(s, c)
    \/ \E s \in Sessions : runLoopTimeout(s)
    \/ \E s \in Sessions : runLoopSetOff(s)
    \/ \E s \in Sessions : runLoopClear(s)

Spec == Init /\ [][Next]_<<vars, cvars, lvars, pvars>>

\* ------------------------------------------------------------ fairness ----
\* Go runs every goroutine that can take a step: a caller inside RunScript or
\* StopScript, and a loop that is rendering or running its deferred calls,
\* does not stop for ever while its next step stays possible. A ticker or
\* timer that is armed fires. A select that is entered again and again with
\* the stop signal or the timeout ready picks it in the end (Go chooses among
\* the ready cases at random). Nothing obliges anybody to make a new call.
CallerStep(c) ==
    \/ RunScriptCheck(c)
    \/ RunScriptParse(c)
    \/ RunScriptSetOn(c)
    \/ RunScriptSetDirectMode(c)
    \/ RunScriptGo(c)
    \/ StopScriptCheck(c)
    \/ StopScriptSleep(c)
    \/ Return(c)

LoopStep(s) ==
    \/ runLoopStatic(s)
    \/ runLoopRender(s)
    \/ runLoopSetOff(s)
    \/ runLoopClear(s)

Fairness ==
    /\ \A c \in Callers : WF_vars(CallerStep(c))
    /\ \A s \in Sessions : WF_vars(LoopStep(s))
    /\ \A s \in Sessions : WF_vars(runLoopTick(s))
    /\ \A s \in Sessions : SF_vars(runLoopTimeout(s))
    /\ \A s \in Sessions, c \in Callers : SF_vars(runLoopStop(s, c))

FairSpec == Spec /\ Fairness

\* ===================================================== script compiler ====
\* ParseScript (script.go:38-279) works on the lines of a file. A line is
\* modelled after strings.TrimSpace and strings.Fields: the sequence of its
\* tokens, a token being a non-empty sequence of one-character strings; the
\* blank line is the empty sequence.

\* ------------------------------------------------- strings and strconv ----
LowerCase == <<"a", "b", "c", "d", "e", "f", "g", "h", "i", "j", "k", "l", "m",
               "n", "o", "p", "q", "r", "s", "t", "u", "v", "w", "x", "y", "z">>
UpperCase == <<"A", "B", "C", "D", "E", "F", "G", "H", "I", "J", "K", "L", "M",
               "N", "O", "P", "Q", "R", "S", "T", "U", "V", "W", "X", "Y", "Z">>
HexDigits == <<"0", "1", "2", "3", "4", "5", "6", "7", "8", "9",
               "a", "b", "c", "d", "e", "f">>

IndexOf(ch, table) ==
    IF \E i \in DOMAIN table : table[i] = ch
    THEN CHOOSE i \in DOMAIN table : table[i] = ch
    ELSE 0

\* strings.ToUpper, strings.ToLower on the letters a-z, A-Z
ToUpperChar(ch) ==
    IF IndexOf(ch, LowerCase) > 0 THEN UpperCase[IndexOf(ch, LowerCase)] ELSE ch
ToLowerChar(ch) ==
    IF IndexOf(ch, UpperCase) > 0 THEN LowerCase[IndexOf(ch, UpperCase)] ELSE ch
ToUpper(str) == [i \in DOMAIN str |-> ToUpperChar(str[i])]
ToLower(str) == [i \in DOMAIN str |-> ToLowerChar(str[i])]

\* strings.HasPrefix
HasPrefix(str, prefix) ==
    /\ Len(str) >= Len(prefix)
    /\ SubSeq(str, 1, Len(prefix)) = prefix

\* strings.Trim(str, cutset): drop the leading and trailing characters that
\* are in cutset
RECURSIVE TrimLeft(_, _)
TrimLeft(str, cutset) ==
    IF str # << >> /\ Head(str) \in cutset
    THEN TrimLeft(Tail(str), cutset) ELSE str
RECURSIVE TrimRight(_, _)
TrimRight(str, cutset) ==
    IF str # << >> /\ str[Len(str)] \in cutset
    THEN TrimRight(SubSeq(str, 1, Len(str) - 1), cutset) ELSE str
Trim(str, cutset) == TrimRight(TrimLeft(str, cutset), cutset)

\* the value of a digit in the given base, -1 if it is not one
DigitValue(ch, base) ==
    LET v == IndexOf(ToLowerChar(ch), HexDigits) - 1
    IN IF v >= 0 /\ v < base THEN v ELSE -1

RECURSIVE DigitsValue(_, _, _)
DigitsValue(str, base, acc) ==
    IF str = << >> THEN acc
    ELSE DigitsValue(Tail(str), base, acc * base + DigitValue(Head(str), base))

\* strconv.ParseInt(str, base, 64) for base 10 and 16: an optional sign, then
\* one or more digits of the base; on a syntax error the value returned is 0.
\* (No token of the model is long enough for a range error.)
ParseInt(str, base) ==
    LET signed == str # << >> /\ Head(str) \in {"+", "-"}
        digits == IF signed THEN Tail(str) ELSE str
        ok     == /\ digits # << >>
                  /\ \A i \in DOMAIN digits : DigitValue(digits[i], base) >= 0
        mag    == DigitsValue(digits, base, 0)
    IN IF ~ok THEN [ok |-> FALSE, val |-> 0]
       ELSE [ok |-> TRUE,
             val |-> IF signed /\ Head(str) = "-" THEN 0 - mag ELSE mag]

\* strconv.Atoi
Atoi(str) == ParseInt(str, 10)

RECURSIVE Pow10(_)
Pow10(n) == IF n = 0 THEN 1 ELSE 10 * Pow10(n - 1)

\* strconv.ParseFloat(str, 64) on plain decimal tokens: an optional sign,
\* digits, an optional point and digits, at least one digit in all. The value
\* is num/den. (The inputs of the model hold no exponent, hexadecimal,
\* infinity or NaN token.)
ParseFloat(str) ==
    LET signed == str # << >> /\ Head(str) \in {"+", "-"}
        body   == IF signed THEN Tail(str) ELSE str
        dot    == IndexOf(".", body)
        int    == IF dot = 0 THEN body ELSE SubSeq(body, 1, dot - 1)
        frac   == IF dot = 0 THEN << >> ELSE SubSeq(body, dot + 1, Len(body))
        ok     == /\ Len(int) + Len(frac) >= 1
                  /\ \A i \in DOMAIN int : DigitValue(int[i], 10) >= 0
                  /\ \A i \in DOMAIN frac : DigitValue(frac[i], 10) >= 0
        mag    == DigitsValue(int \o frac, 10, 0)
    IN IF ~ok THEN [ok |-> FALSE, num |-> 0, den |-> 1]
       ELSE [ok |-> TRUE,
             num |-> IF signed /\ Head(str) = "-" THEN 0 - mag ELSE mag,
             den |-> Pow10(Len(frac))]

\* ------------------------------------------------------ colors, matrix ----
\* Color.Value of the named colors' hex strings (script.go:408-419)
NamedColors ==
    { <<(<<"r", "e", "d">>), (<<"#", "F", "F", "0", "0", "0", "0">>)>>,
      <<(<<"g", "r", "e", "e", "n">>), (<<"#", "0", "0", "F", "F", "0", "0">>)>>,
      <<(<<"b", "l", "u", "e">>), (<<"#", "0", "0", "0", "0", "F", "F">>)>>,
      <<(<<"w", "h", "i", "t", "e">>), (<<"#", "F", "F", "F", "F", "F", "F">>)>>,
      <<(<<"y", "e", "l", "l", "o", "w">>), (<<"#", "F", "F", "F", "F", "0", "0">>)>>,
      <<(<<"c", "y", "a", "n">>), (<<"#", "0", "0", "F", "F", "F", "F">>)>>,
      <<(<<"m", "a", "g", "e", "n", "t", "a">>), (<<"#", "F", "F", "0", "0", "F", "F">>)>>,
      <<(<<"o", "r", "a", "n", "g", "e">>), (<<"#", "F", "F", "A", "5", "0", "0">>)>>,
      <<(<<"p", "u", "r", "p", "l", "e">>), (<<"#", "8", "0", "0", "0", "8", "0">>)>>,
      <<(<<"b", "l", "a", "c", "k">>), (<<"#", "0", "0", "0", "0", "0", "0">>)>> }

BlackHex == <<"#", "0", "0", "0", "0", "0", "0">>

\* script.go:405-440
parseColor(colorStr) ==
    LET str == ToLower(colorStr) IN
    IF \E p \in NamedColors : p[1] = str
    THEN [ok |-> TRUE, hex |-> (CHOOSE p \in NamedColors : p[1] = str)[2]]
    ELSE IF HasPrefix(str, <<"#">>)
    THEN IF Len(str) = 7 THEN [ok |-> TRUE, hex |-> str]
         ELSE [ok |-> FALSE, hex |-> << >>]
    ELSE IF Len(str) = 6 THEN [ok |-> TRUE, hex |-> <<"#">> \o str]
    ELSE [ok |-> FALSE, hex |-> << >>]

\* part_000:197-205  Color.Hex: Value is assigned ParseInt's result, which is 0
\* on an error; the callers below drop the error
Hex(hexv) == ParseInt(Trim(hexv, {" ", "#"}), 16).val

\* part_000:207-211  Color.RGB(r, g, b int8)
RGB(r, g, b) == b + r * 65536 + g * 256

\* part_000:213-218  Color.ToRGB: the three low bytes of Value
ToRGB(value) ==
    [r |-> (value % 16777216) \div 65536,
     g |-> (value % 65536) \div 256,
     b |-> value % 256]

MatrixSize == 25
Side == 5
Cells == 0..(MatrixSize - 1)
Grid == [Row : 0..(Side - 1), Column : 0..(Side - 1)]

\* part_000:83-87
Index(v) == v.Column + v.Row * Side

\* part_000:89-96  MakeMatrix(hex, 25)
MakeMatrix(hex) == LET c == Hex(hex) IN [i \in Cells |-> c]

\* part_000:122-126
ReplaceAllHex(matrix, h) == LET c == Hex(h) IN [i \in Cells |-> c]

\* part_000:135-137; an index outside the slice is a run-time panic, which
\* Panics below detects before SetHex or SetColor is applied
SetHex(matrix, v, h) == [matrix EXCEPT ![Index(v)] = Hex(h)]

\* part_000:139-141
SetColor(matrix, v, c) == [matrix EXCEPT ![Index(v)] = c]

\* part_000:143-145
GetColor(matrix, v) == matrix[Index(v)]

\* SetHex over a set of vectors with one color: the order does not matter
SetHexAll(matrix, vs, h) ==
    LET c == Hex(h)
        at == {Index(v) : v \in vs}
    IN [i \in Cells |-> IF i \in at THEN c ELSE matrix[i]]

abs(n) == IF n < 0 THEN 0 - n ELSE n

\* ------------------------------------------------------------ drawing ----
\* the vectors each draw function hands to SetHex, all with one color
\* script.go:456-467
drawCircle(cx, cy, radius) ==
    {v \in Grid : /\ radius >= 0
                  /\ (v.Column - cx) * (v.Column - cx)
                       + (v.Row - cy) * (v.Row - cy) <= radius * radius}

\* script.go:469-480: |sqrt(d2) - radius| < 0.8, squared and scaled by 25
drawRing(cx, cy, radius) ==
    {v \in Grid :
       LET d2 == (v.Column - cx) * (v.Column - cx) + (v.Row - cy) * (v.Row - cy)
       IN /\ 5 * radius + 4 > 0
          /\ 25 * d2 < (5 * radius + 4) * (5 * radius + 4)
          /\ 5 * radius - 4 < 0 \/ 25 * d2 > (5 * radius - 4) * (5 * radius - 4)}

\* script.go:482-490
drawRect(x1, y1, x2, y2) ==
    {v \in Grid : /\ y1 <= v.Row /\ v.Row <= y2
                  /\ x1 <= v.Column /\ v.Column <= x2}

\* script.go:503-524: the loop of Bresenham's algorithm from (x, y) on
RECURSIVE drawLineLoop(_, _, _, _, _, _, _, _, _)
drawLineLoop(x, y, x2, y2, dx, dy, sx, sy, err) ==
    LET here  == IF x >= 0 /\ x < Side /\ y >= 0 /\ y < Side
                 THEN {[Row |-> y, Column |-> x]} ELSE {}
        e2    == 2 * err
        stepX == e2 > 0 - dy
        err1  == IF stepX THEN err - dy ELSE err
        stepY == e2 < dx
        err2  == IF stepY THEN err1 + dx ELSE err1
    IN IF x = x2 /\ y = y2 THEN here
       ELSE here \cup drawLineLoop(IF stepX THEN x + sx ELSE x,
                                   IF stepY THEN y + sy ELSE y,
                                   x2, y2, dx, dy, sx, sy, err2)

drawLineOpenEnded(x1, y1, x2, y2) ==
    LET dx == abs(x2 - x1)
        dy == abs(y2 - y1)
        sx == IF x1 > x2 THEN -1 ELSE 1
        sy == IF y1 > y2 THEN -1 ELSE 1
    IN drawLineLoop(x1, y1, x2, y2, dx, dy, sx, sy, dx - dy)
          \ {[Row |-> y2, Column |-> x2]}

\* script.go:492-525
drawLine(x1, y1, x2, y2) ==
    LET dx == abs(x2 - x1)
        dy == abs(y2 - y1)
        sx == IF x1 > x2 THEN -1 ELSE 1
        sy == IF y1 > y2 THEN -1 ELSE 1
    IN drawLineLoop(x1, y1, x2, y2, dx, dy, sx, sy, dx - dy)

\* script.go:527-543: Row cy and Column cx are used as they are
drawCross(cx, cy, size) ==
    {[Row |-> cy, Column |-> x] :
        x \in {cx + i : i \in (0 - size)..size} \cap (0..(Side - 1))}
    \cup {[Row |-> y, Column |-> cx] :
        y \in {cy + i : i \in (0 - size)..size} \cap (0..(Side - 1))}

\* ------------------------------------------------ rotate, shift, dim ----
\* math.Cos and math.Sin of the angles the model uses, the multiples of 45
\* degrees, times 10^6
Cos1e6 == <<1000000, 707107, 0, -707107, -1000000, -707107, 0, 707107>>
Sin1e6 == <<0, 707107, 1000000, 707107, 0, -707107, -1000000, -707107>>
Octant(degrees) == ((degrees.num \div degrees.den) % 360) \div 45 + 1

\* int(math.Round(math.Abs(v))) for v given times 10^6
RoundAbs1e6(v) == (abs(v) + 500000) \div 1000000

\* part_000:163-173: where RotateAt about (2, 2) moves cell i
RotateTarget(i, degrees) ==
    LET x  == i % Side
        y  == i \div Side
        c  == Cos1e6[Octant(degrees)]
        s  == Sin1e6[Octant(degrees)]
    IN [Column |-> RoundAbs1e6(2000000 + ((x - 2) * c - (y - 2) * s)),
        Row    |-> RoundAbs1e6(2000000 + ((x - 2) * s + (y - 2) * c))]

\* part_000:175-176: new_matrix.SetColor(v_new, color) with v_new's index
\* outside the slice
RotatePanics(degrees) ==
    \E i \in Cells : Index(RotateTarget(i, degrees)) \notin Cells

RECURSIVE RotateLoop(_, _, _, _)
RotateLoop(matrix, new, degrees, i) ==
    IF i >= MatrixSize THEN new
    ELSE RotateLoop(matrix,
                    SetColor(new, RotateTarget(i, degrees),
                             GetColor(matrix, [Row |-> i \div Side,
                                               Column |-> i % Side])),
                    degrees, i + 1)

\* part_000:151-179  Rotate: RotateAt about (2, 2), cells in row order
Rotate(matrix, degrees) == RotateLoop(matrix, MakeMatrix(BlackHex), degrees, 0)

shiftMatrixWraps(matrix, direction) ==
    LET from(v) ==
          IF direction = <<"U", "P">>
             THEN [v EXCEPT !.Row = (v.Row + 1) % Side]
          ELSE IF direction = <<"D", "O", "W", "N">>
             THEN [v EXCEPT !.Row = (v.Row + Side - 1) % Side]
          ELSE IF direction = <<"L", "E", "F", "T">>
             THEN [v EXCEPT !.Column = (v.Column + 1) % Side]
          ELSE [v EXCEPT !.Column = (v.Column + Side - 1) % Side]
    IN [i \in Cells |->
          GetColor(matrix, from([Row |-> i \div Side, Column |-> i % Side]))]

\* script.go:545-580: a direction that is none of the four leaves the new,
\* all-black matrix as it is
shiftMatrix(matrix, direction) ==
    LET from(v) ==
          IF direction = <<"U", "P">> /\ v.Row < Side - 1
             THEN {[v EXCEPT !.Row = v.Row + 1]}
          ELSE IF direction = <<"D", "O", "W", "N">> /\ v.Row >= 1
             THEN {[v EXCEPT !.Row = v.Row - 1]}
          ELSE IF direction = <<"L", "E", "F", "T">> /\ v.Column < Side - 1
             THEN {[v EXCEPT !.Column = v.Column + 1]}
          ELSE IF direction = <<"R", "I", "G", "H", "T">> /\ v.Column >= 1
             THEN {[v EXCEPT !.Column = v.Column - 1]}
          ELSE {}
    IN [i \in Cells |->
          LET src == from([Row |-> i \div Side, Column |-> i % Side])
          IN IF src = {} THEN Hex(BlackHex)
             ELSE GetColor(matrix, CHOOSE v \in src : TRUE)]

\* byte(float64(c) * factor) for a channel c in 0..255 and 0 <= factor <= 1;
\* the product is exact for the factors the model uses (0, 0.25, 0.5, 1)
ScaleByte(c, factor) == (c * factor.num) \div factor.den

\* int8(byte)
Int8(b) == IF b >= 128 THEN b - 256 ELSE b

\* script.go:582-590
dimMatrix(matrix, factor) ==
    [i \in Cells |->
       LET c == ToRGB(matrix[i])
       IN RGB(Int8(ScaleByte(c.r, factor)),
              Int8(ScaleByte(c.g, factor)),
              Int8(ScaleByte(c.b, factor)))]

\* ------------------------------------------------------------ commands ----
FILL == <<"F", "I", "L", "L">>
CLEAR == <<"C", "L", "E", "A", "R">>
PIXEL == <<"P", "I", "X", "E", "L">>
ROW == <<"R", "O", "W">>
COL == <<"C", "O", "L">>
CIRCLE == <<"C", "I", "R", "C", "L", "E">>
RING == <<"R", "I", "N", "G">>
RECT == <<"R", "E", "C", "T">>
LINE == <<"L", "I", "N", "E">>
CROSS == <<"C", "R", "O", "S", "S">>
ROTATE == <<"R", "O", "T", "A", "T", "E">>
SHIFT == <<"S", "H", "I", "F", "T">>
DIM == <<"D", "I", "M">>

\* Go's parts[i], which counts from 0
Part(parts, i) == parts[i + 1]

InGridAlways(n) == TRUE

\* script.go:447, 451, 115, 131  n < 0 || n > 4 is an error
InGrid(n) == n >= 0 /\ n <= 4

\* script.go:442-454
parseCoordinates(xStr, yStr) ==
    LET x == Atoi(xStr)
        y == Atoi(yStr)
    IN IF ~x.ok \/ ~InGrid(x.val) THEN [ok |-> FALSE, x |-> 0, y |-> 0]
       ELSE IF ~y.ok \/ ~InGrid(y.val) THEN [ok |-> FALSE, x |-> 0, y |-> 0]
       ELSE [ok |-> TRUE, x |-> x.val, y |-> y.val]

\* what one command line does to currentMatrix: err is "nil", the kind of the
\* error returned, or "panic"; matrix is currentMatrix's content afterwards;
\* assigned tells that currentMatrix was assigned a new matrix rather than
\* changed in place; writes are the vectors handed to SetHex
Failed(matrix, kind) ==
    [err |-> kind, matrix |-> matrix, assigned |-> FALSE, writes |-> {}]

Painted(matrix, vs, hex) ==
    IF \E v \in vs : Index(v) \notin Cells
    THEN [err |-> "panic", matrix |-> matrix, assigned |-> FALSE, writes |-> vs]
    ELSE [err |-> "nil", matrix |-> SetHexAll(matrix, vs, hex),
          assigned |-> FALSE, writes |-> vs]

Assigned(matrix) ==
    [err |-> "nil", matrix |-> matrix, assigned |-> TRUE, writes |-> {}]

\* script.go:83-92
ExecFill(matrix, parts) ==
    IF Len(parts) < 2 THEN Failed(matrix, "requires")
    ELSE LET color == parseColor(Part(parts, 1)) IN
         IF ~color.ok THEN Failed(matrix, "color")
         ELSE [err |-> "nil", matrix |-> ReplaceAllHex(matrix, color.hex),
               assigned |-> FALSE, writes |-> {}]

\* script.go:94-95
ExecClear(matrix, parts) ==
    [err |-> "nil", matrix |-> ReplaceAllHex(matrix, BlackHex),
     assigned |-> FALSE, writes |-> {}]

\* script.go:97-109
ExecPixel(matrix, parts) ==
    IF Len(parts) < 4 THEN Failed(matrix, "requires")
    ELSE LET at == parseCoordinates(Part(parts, 1), Part(parts, 2))
             color == parseColor(Part(parts, 3))
         IN IF ~at.ok THEN Failed(matrix, "coordinate")
            ELSE IF ~color.ok THEN Failed(matrix, "color")
            ELSE Painted(matrix, {[Row |-> at.y, Column |-> at.x]}, color.hex)

\* script.go:111-125 (ROW, horizontal TRUE) and 127-141 (COL)
ExecRowCol(matrix, parts, horizontal) ==
    IF Len(parts) < 3 THEN Failed(matrix, "requires")
    ELSE LET n == Atoi(Part(parts, 1))
             color == parseColor(Part(parts, 2))
         IN IF ~n.ok \/ ~InGrid(n.val) THEN Failed(matrix, "number")
            ELSE IF ~color.ok THEN Failed(matrix, "color")
            ELSE Painted(matrix,
                         {IF horizontal THEN [Row |-> n.val, Column |-> k]
                                        ELSE [Row |-> k, Column |-> n.val] :
                            k \in 0..(Side - 1)},
                         color.hex)

\* script.go:143-159 (CIRCLE), 161-177 (RING), 215-231 (CROSS)
ExecRound(matrix, parts, cmd) ==
    IF Len(parts) < 5 THEN Failed(matrix, "requires")
    ELSE LET at == parseCoordinates(Part(parts, 1), Part(parts, 2))
             size == Atoi(Part(parts, 3))
             color == parseColor(Part(parts, 4))
         IN IF ~at.ok THEN Failed(matrix, "coordinate")
            ELSE IF ~size.ok THEN Failed(matrix, "number")
            ELSE IF ~color.ok THEN Failed(matrix, "color")
            ELSE Painted(matrix,
                         IF cmd = CIRCLE THEN drawCircle(at.x, at.y, size.val)
                         ELSE IF cmd = RING THEN drawRing(at.x, at.y, size.val)
                         ELSE drawCross(at.x, at.y, size.val),
                         color.hex)

\* script.go:179-195 (RECT), 197-213 (LINE)
ExecSpan(matrix, parts, cmd) ==
    IF Len(parts) < 6 THEN Failed(matrix, "requires")
    ELSE LET p == parseCoordinates(Part(parts, 1), Part(parts, 2))
             q == parseCoordinates(Part(parts, 3), Part(parts, 4))
             color == parseColor(Part(parts, 5))
         IN IF ~p.ok \/ ~q.ok THEN Failed(matrix, "coordinate")
            ELSE IF ~color.ok THEN Failed(matrix, "color")
            ELSE Painted(matrix,
                         IF cmd = RECT THEN drawRect(p.x, p.y, q.x, q.y)
                         ELSE drawLine(p.x, p.y, q.x, q.y),
                         color.hex)

\* script.go:233-241
ExecRotate(matrix, parts) ==
    IF Len(parts) < 2 THEN Failed(matrix, "requires")
    ELSE LET degrees == ParseFloat(Part(parts, 1)) IN
         IF ~degrees.ok THEN Failed(matrix, "number")
         ELSE IF RotatePanics(degrees)
         THEN [err |-> "panic", matrix |-> matrix, assigned |-> FALSE,
               writes |-> {}]
         ELSE Assigned(Rotate(matrix, degrees))

\* script.go:243-248
ExecShift(matrix, parts) ==
    IF Len(parts) < 2 THEN Failed(matrix, "requires")
    ELSE Assigned(shiftMatrix(matrix, ToUpper(Part(parts, 1))))

\* script.go:250-258
ExecDim(matrix, parts) ==
    IF Len(parts) < 2 THEN Failed(matrix, "requires")
    ELSE LET factor == ParseFloat(Part(parts, 1)) IN
         IF ~factor.ok \/ factor.num < 0 \/ factor.num > factor.den
         THEN Failed(matrix, "number")
         ELSE [err |-> "nil", matrix |-> dimMatrix(matrix, factor),
               assigned |-> FALSE, writes |-> {}]

\* script.go:80-262  the switch on strings.ToUpper(parts[0])
ExecCommand(matrix, parts) ==
    LET cmd == ToUpper(Part(parts, 0)) IN
    IF cmd = FILL THEN ExecFill(matrix, parts)
    ELSE IF cmd = CLEAR THEN ExecClear(matrix, parts)
    ELSE IF cmd = PIXEL THEN ExecPixel(matrix, parts)
    ELSE IF cmd = ROW THEN ExecRowCol(matrix, parts, TRUE)
    ELSE IF cmd = COL THEN ExecRowCol(matrix, parts, FALSE)
    ELSE IF cmd \in {CIRCLE, RING, CROSS} THEN ExecRound(matrix, parts, cmd)
    ELSE IF cmd \in {RECT, LINE} THEN ExecSpan(matrix, parts, cmd)
    ELSE IF cmd = ROTATE THEN ExecRotate(matrix, parts)
    ELSE IF cmd = SHIFT THEN ExecShift(matrix, parts)
    ELSE IF cmd = DIM THEN ExecDim(matrix, parts)
    ELSE Failed(matrix, "unknown")

\* ---------------------------------------------------------- ParseScript ----
\* Go slices are references: arrays holds the backing arrays of the matrices
\* alive in ParseScript, currentMatrix and the entries of frames are indices
\* into it (the Colors slice of currentMatrix and of each script.Frames[k]).

\* script.go:45-53
ParseStart(lines) ==
    /\ input = lines
    /\ lineNum = 0
    /\ hasContent = FALSE
    /\ arrays = <<MakeMatrix(BlackHex)>>
    /\ currentMatrix = 1
    /\ frames = << >>
    /\ result = NilResult
    /\ offGrid = FALSE

\* script.go:55  scanner.Scan() has a line to give
Scanning == result.pc = "scan" /\ lineNum < Len(input)

\* script.go:57  the line read by this iteration
Line == input[lineNum + 1]

\* script.go:70  strings.HasPrefix(line, "#") || strings.HasPrefix(line, "//")
IsComment(line) ==
    HasPrefix(line[1], <<"#">>) \/ HasPrefix(line[1], <<"/", "/">>)

AssignMatrixShared(matrix, emitted) ==
    /\ arrays' = [arrays EXCEPT ![currentMatrix] = matrix]
    /\ UNCHANGED currentMatrix

\* currentMatrix = <a new matrix>, emitted being script.Frames at that moment:
\* the array currentMatrix had is garbage unless an emitted frame refers to it
AssignMatrix(matrix, emitted) ==
    IF \E k \in DOMAIN emitted : emitted[k] = currentMatrix
    THEN /\ arrays' = Append(arrays, matrix)
         /\ currentMatrix' = Len(arrays) + 1
    ELSE /\ arrays' = [arrays EXCEPT ![currentMatrix] = matrix]
         /\ UNCHANGED currentMatrix

ScanBlankCutsAlways ==
    /\ Scanning
    /\ Line = << >>
    /\ lineNum' = lineNum + 1
    /\ frames' = Append(frames, currentMatrix)
    /\ AssignMatrix(MakeMatrix(BlackHex), Append(frames, currentMatrix))
    /\ hasContent' = FALSE
    /\ UNCHANGED <<input, result, offGrid, vars, lvars, pvars>>

\* script.go:60-68: a blank line ends the frame if the frame has content
ScanBlank ==
    /\ Scanning
    /\ Line = << >>
    /\ lineNum' = lineNum + 1
    /\ IF hasContent
       THEN /\ frames' = Append(frames, currentMatrix)
            /\ AssignMatrix(MakeMatrix(BlackHex), Append(frames, currentMatrix))
            /\ hasContent' = FALSE
       ELSE UNCHANGED <<frames, arrays, currentMatrix, hasContent>>
    /\ UNCHANGED <<input, result, offGrid, vars, lvars, pvars>>

\* script.go:70-72
ScanComment ==
    /\ Scanning
    /\ Line # << >>
    /\ IsComment(Line)
    /\ lineNum' = lineNum + 1
    /\ UNCHANGED <<input, hasContent, arrays, currentMatrix, frames, result,
                   offGrid, vars, lvars, pvars>>

\* script.go:74-262: a command line; an error ends ParseScript with
\* "line <lineNum>: ..." and no Script
ScanCommand ==
    /\ Scanning
    /\ Line # << >>
    /\ ~IsComment(Line)
    /\ lineNum' = lineNum + 1
    /\ hasContent' = TRUE
    /\ LET done == ExecCommand(arrays[currentMatrix], Line) IN
       /\ offGrid' = (offGrid \/ \E v \in done.writes : v \notin Grid)
       /\ IF done.err = "nil"
          THEN /\ IF done.assigned
                  THEN AssignMatrix(done.matrix, frames)
                  ELSE /\ arrays' = [arrays EXCEPT ![currentMatrix] = done.matrix]
                       /\ UNCHANGED currentMatrix
               /\ UNCHANGED result
          ELSE /\ result' = [pc |-> "done", err |-> done.err,
                             line |-> lineNum', script |-> << >>]
               /\ UNCHANGED <<arrays, currentMatrix>>
    /\ UNCHANGED <<input, frames, vars, lvars, pvars>>

ScanEndReturnsEmpty ==
    /\ result.pc = "scan"
    /\ lineNum = Len(input)
    /\ frames' = IF hasContent THEN Append(frames, currentMatrix) ELSE frames
    /\ result' = [pc |-> "done", err |-> "nil", line |-> 0,
                  script |-> [k \in DOMAIN frames' |-> arrays[frames'[k]]]]
    /\ UNCHANGED <<input, lineNum, hasContent, arrays, currentMatrix, offGrid,
                   vars, lvars, pvars>>

\* script.go:265-278: the input has ended (its reading never fails in the
\* model); the pending frame is emitted, an empty script is an error
ScanEnd ==
    /\ result.pc = "scan"
    /\ lineNum = Len(input)
    /\ frames' = IF hasContent THEN Append(frames, currentMatrix) ELSE frames
    /\ result' = IF Len(frames') = 0
                 THEN [pc |-> "done", err |-> "empty", line |-> 0,
                       script |-> << >>]
                 ELSE [pc |-> "done", err |-> "nil", line |-> 0,
                       script |-> [k \in DOMAIN frames' |-> arrays[frames'[k]]]]
    /\ UNCHANGED <<input, lineNum, hasContent, arrays, currentMatrix, offGrid,
                   vars, lvars, pvars>>

ParseNext == ScanBlank \/ ScanComment \/ ScanCommand \/ ScanEnd

\* ------------------------------------------------------------- inputs ----
\* the lines every position of an input may hold
MainLines ==
    \* (blank)
    { <<>>,
    \* # c
      <<<<"#">>, <<"c">>>>,
    \* FILL red
      <<FILL, <<"r", "e", "d">>>>,
    \* DIM 0.5
      <<DIM, <<"0", ".", "5">>>>,
    \* NOPE
      <<<<"N", "O", "P", "E">>>> }

\* the lines of which an input holds at most one
ProbeLines ==
    \* //c
    { <<<<"/", "/", "c">>>>,
    \* fill Red
      <<<<"f", "i", "l", "l">>, <<"R", "e", "d">>>>,
    \* CLEAR
      <<CLEAR>>,
    \* CLEAR now
      <<CLEAR, <<"n", "o", "w">>>>,
    \* FILL
      <<FILL>>,
    \* FILL red blue
      <<FILL, <<"r", "e", "d">>, <<"b", "l", "u", "e">>>>,
    \* FILL pink
      <<FILL, <<"p", "i", "n", "k">>>>,
    \* FILL #ff00
      <<FILL, <<"#", "f", "f", "0", "0">>>>,
    \* FILL zzzzzz
      <<FILL, <<"z", "z", "z", "z", "z", "z">>>>,
    \* FILL #zzzzzz
      <<FILL, <<"#", "z", "z", "z", "z", "z", "z">>>>,
    \* FILL #FFA500
      <<FILL, <<"#", "F", "F", "A", "5", "0", "0">>>>,
    \* FILL ff
      <<FILL, <<"f", "f">>>>,
    \* PIXEL 1 2 0000ff
      <<PIXEL, <<"1">>, <<"2">>, <<"0", "0", "0", "0", "f", "f">>>>,
    \* PIXEL 1 red
      <<PIXEL, <<"1">>, <<"r", "e", "d">>>>,
    \* PIXEL 5 0 red
      <<PIXEL, <<"5">>, <<"0">>, <<"r", "e", "d">>>>,
    \* PIXEL 0 5 red
      <<PIXEL, <<"0">>, <<"5">>, <<"r", "e", "d">>>>,
    \* PIXEL -1 0 red
      <<PIXEL, <<"-", "1">>, <<"0">>, <<"r", "e", "d">>>>,
    \* PIXEL x 0 red
      <<PIXEL, <<"x">>, <<"0">>, <<"r", "e", "d">>>>,
    \* PIXEL 4 4 nocolor
      <<PIXEL, <<"4">>, <<"4">>, <<"n", "o", "c", "o", "l", "o", "r">>>>,
    \* PIXEL 0 0 red 9
      <<PIXEL, <<"0">>, <<"0">>, <<"r", "e", "d">>, <<"9">>>>,
    \* ROW 2 green
      <<ROW, <<"2">>, <<"g", "r", "e", "e", "n">>>>,
    \* ROW 5 green
      <<ROW, <<"5">>, <<"g", "r", "e", "e", "n">>>>,
    \* ROW 2
      <<ROW, <<"2">>>>,
    \* COL 0 green
      <<COL, <<"0">>, <<"g", "r", "e", "e", "n">>>>,
    \* COL 5 green
      <<COL, <<"5">>, <<"g", "r", "e", "e", "n">>>>,
    \* COL -1 green
      <<COL, <<"-", "1">>, <<"g", "r", "e", "e", "n">>>>,
    \* CIRCLE 2 2 1 red
      <<CIRCLE, <<"2">>, <<"2">>, <<"1">>, <<"r", "e", "d">>>>,
    \* CIRCLE 5 2 1 red
      <<CIRCLE, <<"5">>, <<"2">>, <<"1">>, <<"r", "e", "d">>>>,
    \* CIRCLE 2 5 1 red
      <<CIRCLE, <<"2">>, <<"5">>, <<"1">>, <<"r", "e", "d">>>>,
    \* CIRCLE 2 2 r red
      <<CIRCLE, <<"2">>, <<"2">>, <<"r">>, <<"r", "e", "d">>>>,
    \* RING 2 2 2 red
      <<RING, <<"2">>, <<"2">>, <<"2">>, <<"r", "e", "d">>>>,
    \* RING 2 7 1 red
      <<RING, <<"2">>, <<"7">>, <<"1">>, <<"r", "e", "d">>>>,
    \* RING 6 2 1 red
      <<RING, <<"6">>, <<"2">>, <<"1">>, <<"r", "e", "d">>>>,
    \* RECT 1 1 3 3 red
      <<RECT, <<"1">>, <<"1">>, <<"3">>, <<"3">>, <<"r", "e", "d">>>>,
    \* RECT 1 1 5 3 red
      <<RECT, <<"1">>, <<"1">>, <<"5">>, <<"3">>, <<"r", "e", "d">>>>,
    \* RECT 1 1 3 6 red
      <<RECT, <<"1">>, <<"1">>, <<"3">>, <<"6">>, <<"r", "e", "d">>>>,
    \* RECT 5 1 3 3 red
      <<RECT, <<"5">>, <<"1">>, <<"3">>, <<"3">>, <<"r", "e", "d">>>>,
    \* RECT 1 1 3 3
      <<RECT, <<"1">>, <<"1">>, <<"3">>, <<"3">>>>,
    \* LINE 0 0 4 2 red
      <<LINE, <<"0">>, <<"0">>, <<"4">>, <<"2">>, <<"r", "e", "d">>>>,
    \* LINE 0 0 4 5 red
      <<LINE, <<"0">>, <<"0">>, <<"4">>, <<"5">>, <<"r", "e", "d">>>>,
    \* LINE 6 0 0 0 red
      <<LINE, <<"6">>, <<"0">>, <<"0">>, <<"0">>, <<"r", "e", "d">>>>,
    \* LINE 0 0 5 0 red
      <<LINE, <<"0">>, <<"0">>, <<"5">>, <<"0">>, <<"r", "e", "d">>>>,
    \* CROSS 1 1 1 red
      <<CROSS, <<"1">>, <<"1">>, <<"1">>, <<"r", "e", "d">>>>,
    \* CROSS 1 5 1 red
      <<CROSS, <<"1">>, <<"5">>, <<"1">>, <<"r", "e", "d">>>>,
    \* CROSS 5 1 1 red
      <<CROSS, <<"5">>, <<"1">>, <<"1">>, <<"r", "e", "d">>>>,
    \* CROSS 0 4 3 red
      <<CROSS, <<"0">>, <<"4">>, <<"3">>, <<"r", "e", "d">>>>,
    \* ROTATE
      <<ROTATE>>,
    \* ROTATE 90
      <<ROTATE, <<"9", "0">>>>,
    \* ROTATE 45
      <<ROTATE, <<"4", "5">>>>,
    \* ROTATE abc
      <<ROTATE, <<"a", "b", "c">>>>,
    \* ROTATE 90 180
      <<ROTATE, <<"9", "0">>, <<"1", "8", "0">>>>,
    \* SHIFT
      <<SHIFT>>,
    \* SHIFT UP
      <<SHIFT, <<"U", "P">>>>,
    \* SHIFT SIDEWAYS
      <<SHIFT, <<"S", "I", "D", "E", "W", "A", "Y", "S">>>>,
    \* shift left
      <<<<"s", "h", "i", "f", "t">>, <<"l", "e", "f", "t">>>>,
    \* SHIFT DOWN 2
      <<SHIFT, <<"D", "O", "W", "N">>, <<"2">>>>,
    \* DIM
      <<DIM>>,
    \* DIM 1.5
      <<DIM, <<"1", ".", "5">>>>,
    \* DIM 1
      <<DIM, <<"1">>>>,
    \* DIM abc
      <<DIM, <<"a", "b", "c">>>>,
    \* DIM 0.5 0.5
      <<DIM, <<"0", ".", "5">>, <<"0", ".", "5">>>>,
    \* BOGUS 1
      <<<<"B", "O", "G", "U", "S">>, <<"1">>>> }

SeqsUpTo(S, n) == UNION {[1..k -> S] : k \in 0..n}

InsertAt(s, i, e) == SubSeq(s, 1, i) \o <<e>> \o SubSeq(s, i + 1, Len(s))

\* ParseScript is called on a file that could be opened: up to MaxLines
\* lines, all of MainLines or all but one
ParseInit ==
    /\ SchedulerIdle
    /\ LibIdle
    /\ CliIdle
    /\ LinkIdle
    /\ \/ \E lines \in SeqsUpTo(MainLines, MaxLines) : ParseStart(lines)
       \/ \E s \in SeqsUpTo(MainLines, MaxLines - 1) :
             \E i \in 0..Len(s), p \in ProbeLines :
                ParseStart(InsertAt(s, i, p))

ParseSpec == ParseInit /\ [][ParseNext]_<<vars, cvars, lvars, pvars>>

\* ========================================================= primitives ====
\* One call of one primitive of the device package, of the rasterizer or of
\* the front end: call holds the function and its arguments, ret what came
\* of it. A Go slice or string indexed outside its bounds is a run-time
\* panic; the call then ends without a result.

\* the call returned out
Returns(out) == [done |-> TRUE, panic |-> FALSE, out |-> out]
\* the call panicked; mem is the matrix it was working on, as the panic left it
Panics(mem) == [done |-> TRUE, panic |-> TRUE, out |-> mem]

\* fn has been called and has not ended
Calling(fn) == call.fn = fn /\ ~ret.done

\* Go's integer / and %: the quotient is truncated toward zero, the remainder
\* has the sign of the dividend
Quo(a, b) == IF a >= 0 THEN a \div b ELSE 0 - ((0 - a) \div b)
Rem(a, b) == a - b * Quo(a, b)

\* part_000:221
ASCII_TABLE ==
    <<"A", "B", "C", "D", "E", "F", "G", "H", "I", "J", "K", "L", "M",
      "N", "O", "P", "Q", "R", "S", "T", "U", "V", "W", "X", "Y", "Z",
      "a", "b", "c", "d", "e", "f", "g", "h", "i", "j", "k", "l", "m",
      "n", "o", "p", "q", "r", "s", "t", "u", "v", "w", "x", "y", "z",
      "0", "1", "2", "3", "4", "5", "6", "7", "8", "9", "+", "/">>

ToASCIISwapsLowDigits(value) ==
    LET total_bytes == Quo(value, 64)
        rest        == Rem(total_bytes, 4096)
        at          == <<Quo(total_bytes, 4096), Quo(rest, 64), Rem(value, 64),
                         Rem(rest, 64)>>
    IN IF \E k \in 1..4 : at[k] < 0 \/ at[k] >= Len(ASCII_TABLE)
       THEN [panic |-> TRUE, text |-> << >>]
       ELSE [panic |-> FALSE, text |-> [k \in 1..4 |-> ASCII_TABLE[at[k] + 1]]]

\* part_000:220-237  Color.ToASCII: the four indices into ASCII_TABLE, in the
\* order the bytes are appended; an index outside the table panics
ToASCII(value) ==
    LET total_bytes == Quo(value, 64)
        colorValue  == Rem(value, 64)
        rest        == Rem(total_bytes, 4096)
        at          == <<Quo(total_bytes, 4096), Quo(rest, 64), Rem(rest, 64),
                         colorValue>>
    IN IF \E k \in 1..4 : at[k] < 0 \/ at[k] >= Len(ASCII_TABLE)
       THEN [panic |-> TRUE, text |-> << >>]
       ELSE [panic |-> FALSE, text |-> [k \in 1..4 |-> ASCII_TABLE[at[k] + 1]]]

\* part_000:113-120  ColorMatrix.ToASCII: the cells' encodings in slice order
RECURSIVE ToASCIILoop(_, _, _)
ToASCIILoop(matrix, i, ascii) ==
    IF i >= MatrixSize THEN [panic |-> FALSE, text |-> ascii]
    ELSE LET element == ToASCII(matrix[i]) IN
         IF element.panic THEN [panic |-> TRUE, text |-> << >>]
         ELSE ToASCIILoop(matrix, i + 1, ascii \o element.text)

ToASCIIMatrix(matrix) == ToASCIILoop(matrix, 0, << >>)

\* part_000:487-501  SetMatrix on the one-frame slice runLoop hands it
\* (script.go:362, 383): the text given to SetASCII
SetMatrix(frame) == ToASCIIMatrix(frame)

\* part_000:181-185  MakeColorRGB(r, g, b int8)
MakeColorRGB(r, g, b) == RGB(r, g, b)

\* matrix.Colors[v.Index()] is outside the slice
IndexPanics(v) == Index(v) < 0 \/ Index(v) >= MatrixSize

\* ------------------------------------------------- calls: the matrix ----
\* part_000:139-141
CallSetColor ==
    /\ Calling("SetColor")
    /\ ret' = IF IndexPanics(call.v) THEN Panics(call.matrix)
              ELSE Returns(SetColor(call.matrix, call.v, call.color))
    /\ UNCHANGED <<call, vars, cvars, pvars>>

\* part_000:135-137
CallSetHex ==
    /\ Calling("SetHex")
    /\ ret' = IF IndexPanics(call.v) THEN Panics(call.matrix)
              ELSE Returns(SetHex(call.matrix, call.v, call.hex))
    /\ UNCHANGED <<call, vars, cvars, pvars>>

\* part_000:143-145
CallGetColor ==
    /\ Calling("GetColor")
    /\ ret' = IF IndexPanics(call.v) THEN Panics(call.matrix)
              ELSE Returns(GetColor(call.matrix, call.v))
    /\ UNCHANGED <<call, vars, cvars, pvars>>

\* script.go:250-258, 582-590  dimMatrix on a factor that passed the check
\* factor < 0 || factor > 1
CallDimMatrix ==
    /\ Calling("dimMatrix")
    /\ ret' = Returns(dimMatrix(call.matrix, call.factor))
    /\ UNCHANGED <<call, vars, cvars, pvars>>

\* script.go:492-525  drawLine(matrix, x1, y1, x2, y2, color)
CallDrawLine ==
    /\ Calling("drawLine")
    /\ ret' = Returns(SetHexAll(call.matrix,
                                drawLine(call.x1, call.y1, call.x2, call.y2),
                                call.hex))
    /\ UNCHANGED <<call, vars, cvars, pvars>>

\* script.go:545-580
CallShiftMatrix ==
    /\ Calling("shiftMatrix")
    /\ ret' = Returns(shiftMatrix(call.matrix, call.direction))
    /\ UNCHANGED <<call, vars, cvars, pvars>>

\* -------------------------------------------------- calls: the color ----
\* part_000:181-185, 213-218  MakeColorRGB on three bytes, each converted
\* with int8() as in script.go:588, and ToRGB of the color made
CallMakeColorRGB ==
    /\ Calling("MakeColorRGB")
    /\ LET color == MakeColorRGB(Int8(call.r), Int8(call.g), Int8(call.b)) IN
       ret' = Returns([Value |-> color, rgb |-> ToRGB(color)])
    /\ UNCHANGED <<call, vars, cvars, pvars>>

\* part_000:220-237
CallToASCII ==
    /\ Calling("ToASCII")
    /\ LET ascii == ToASCII(call.Value) IN
       ret' = IF ascii.panic THEN Panics(<< >>) ELSE Returns(ascii.text)
    /\ UNCHANGED <<call, vars, cvars, pvars>>

\* ---------------------------------------------- calls: the front end ----
\* r.URL.Query().Get(name) is "" for a parameter that is not given; the
\* value of the parameter as HttpInterval takes it, -1 when strconv.Atoi
\* fails on it or it is not given
QueryValue(str) ==
    IF str = << >> \/ ~Atoi(str).ok THEN -1 ELSE Atoi(str).val

\* main.go:176-180  the timeout an HTTP run request hands to RunScript
HttpTimeout(q) == IF q >= 0 THEN q ELSE 0

\* main.go:166-198: the interval (ms) and timeout (s) handed to RunScript
CallHandleRunScript ==
    /\ Calling("handleRunScript")
    /\ ret' = Returns([interval |-> HttpInterval(QueryValue(call.interval)),
                       timeout  |-> HttpTimeout(QueryValue(call.timeout))])
    /\ UNCHANGED <<call, vars, cvars, pvars>>

\* time.ParseDuration(str + unit) on the tokens of the model: an optional
\* sign and decimal digits give that many units, anything else is an error
ParseDuration(str) == Atoi(str)

\* main.go:250-265: args[0] is the script, args[1] the interval, args[2] the
\* timeout; an argument that is missing or does not parse leaves the default
CallRunCLIMode ==
    /\ Calling("runCLIMode")
    /\ LET ms == IF Len(call.args) > 1
                 THEN ParseDuration(Part(call.args, 1))
                 ELSE [ok |-> FALSE, val |-> 0]
           s  == IF Len(call.args) > 2
                 THEN ParseDuration(Part(call.args, 2))
                 ELSE [ok |-> FALSE, val |-> 0]
       IN ret' = Returns([interval |-> IF ms.ok THEN ms.val
                                       ELSE DefaultIntervalMs,
                          timeout  |-> IF s.ok THEN s.val ELSE 0])
    /\ UNCHANGED <<call, vars, cvars, pvars>>

LibNext ==
    \/ CallSetColor
    \/ CallSetHex
    \/ CallGetColor
    \/ CallDimMatrix
    \/ CallDrawLine
    \/ CallShiftMatrix
    \/ CallMakeColorRGB
    \/ CallToASCII
    \/ CallHandleRunScript
    \/ CallRunCLIMode

\* ------------------------------------------------ calls: the arguments ----
\* a matrix whose cells all differ
Numbered == [i \in Cells |-> i + 1]

\* white, red, green, blue, 808080, 7f7f7f, ffa500 (orange), 800080 (purple),
\* 0180ff, black
Palette ==
    <<16777215, 16711680, 65280, 255, 8421504, 8355711, 16753920, 8388736,
      98559, 0>>

\* a matrix holding every color of Palette
Striped == [i \in Cells |-> Palette[(i % Len(Palette)) + 1]]

RedHex == <<"#", "F", "F", "0", "0", "0", "0">>

\* rows and columns in and around the grid
Coordinates == -1..5

\* DIM factors: 0, 0.25, 0.5 and 1
FactorTokens ==
    { <<"0">>, <<"0", ".", "2", "5">>, <<"0", ".", "5">>, <<"1">> }

Directions ==
    { <<"U", "P">>, <<"D", "O", "W", "N">>, <<"L", "E", "F", "T">>,
      <<"R", "I", "G", "H", "T">> }

\* channel values on both sides of the sign bit of a byte
Bytes == {0, 1, 127, 128, 200, 255}

\* digits of a four-digit number in base 64
Digits64 == {0, 1, 31, 32, 63}

\* 24-bit color values: every number of four such digits
ColorValues ==
    {((d3 * 64 + d2) * 64 + d1) * 64 + d0 :
        d3 \in Digits64, d2 \in Digits64, d1 \in Digits64, d0 \in Digits64}

\* the interval and timeout parameters of a run request; the empty one is a
\* parameter that is not given
IntervalTokens ==
    { << >>, <<"0">>, <<"1">>, <<"2", "0", "0">>, <<"5", "0", "0">>,
      <<"-", "5">>, <<"a", "b", "c">> }
TimeoutTokens == { << >>, <<"0">>, <<"5">>, <<"-", "1">>, <<"x">> }

ScriptName == <<"d", "e", "m", "o">>

Called(c) == call = c /\ ret = [done |-> FALSE]

LibInit ==
    /\ SchedulerIdle
    /\ CompilerIdle
    /\ CliIdle
    /\ LinkIdle
    /\ \/ \E row \in Coordinates, col \in Coordinates :
          \E fn \in {"SetColor", "SetHex", "GetColor"} :
             Called([fn |-> fn, matrix |-> Numbered,
                     v |-> [Row |-> row, Column |-> col],
                     color |-> Hex(RedHex), hex |-> RedHex])
       \/ \E matrix \in {Striped, MakeMatrix(<<"f", "f", "f", "f", "f", "f">>)},
             t \in FactorTokens :
             Called([fn |-> "dimMatrix", matrix |-> matrix,
                     factor |-> ParseFloat(t)])
       \/ \E x1 \in 0..(Side - 1), y1 \in 0..(Side - 1),
             x2 \in 0..(Side - 1), y2 \in 0..(Side - 1) :
             Called([fn |-> "drawLine", matrix |-> Numbered,
                     x1 |-> x1, y1 |-> y1, x2 |-> x2, y2 |-> y2,
                     hex |-> RedHex])
       \/ \E matrix \in {Numbered, Striped}, direction \in Directions :
             Called([fn |-> "shiftMatrix", matrix |-> matrix,
                     direction |-> direction])
       \/ \E r \in Bytes, g \in Bytes, b \in Bytes :
             Called([fn |-> "MakeColorRGB", r |-> r, g |-> g, b |-> b])
       \/ \E value \in ColorValues :
             Called([fn |-> "ToASCII", Value |-> value])
       \/ \E i \in IntervalTokens, t \in TimeoutTokens :
             Called([fn |-> "handleRunScript", interval |-> i, timeout |-> t])
       \/ \E i \in IntervalTokens \ {<< >>}, t \in TimeoutTokens :
             \E args \in {<<ScriptName>>, <<ScriptName, i>>,
                          <<ScriptName, i>> \o (IF t = << >> THEN << >>
                                                ELSE <<t>>)} :
                Called([fn |-> "runCLIMode", args |-> args])

LibSpec == LibInit /\ [][LibNext]_<<vars, cvars, lvars, pvars>>

\* ==================================================== command-line mode ====
\* main.go:243-289 (runCLIMode). The main goroutine is caller 1 and its
\* session is session 1; cli.pc is the statement main has reached. When main
\* returns, or log.Fatalf exits, the process ends and every goroutine with it.
Main == 1

Exited == cli.pc \in {"finished", "fatal"}

\* main.go:251-266, 270: the arguments are parsed and RunScript is called
CliRunScript ==
    /\ cli.pc = "args"
    /\ \E i \in Intervals, t \in Timeouts :
          cli' = [pc |-> "run", interval |-> i, timeout |-> t]
    /\ caller' = [caller EXCEPT ![Main] =
          [IdleCaller EXCEPT !.pc = "run_lock", !.op = "run"]]
    /\ UNCHANGED <<isRunning, currentScript, loop, nsessions, devlog, cvars, lvars, link>>

\* script.go:283-316: RunScript up to the launch of the loop
CliInRunScript ==
    /\ cli.pc = "run"
    /\ \/ RunScriptCheck(Main)
       \/ RunScriptParse(Main)
       \/ RunScriptSetOn(Main)
       \/ RunScriptSetDirectMode(Main)

\* script.go:318-321 with main.go:270: the loop gets main's interval and timeout
CliRunScriptGo ==
    /\ cli.pc = "run"
    /\ RunScriptGo(Main)
    /\ loop'[caller[Main].sid].interval = cli.interval
    /\ loop'[caller[Main].sid].timeout = cli.timeout

\* main.go:270-285: what main does once RunScript has returned err
CliWait(err, timeout) ==
    IF err # "nil" THEN "fatal"
    ELSE IF timeout = 0 THEN "enter" ELSE "sleep"

\* main.go:270-272, 275, 283: RunScript has returned
CliRunReturns ==
    /\ cli.pc = "run"
    /\ caller[Main].pc = "ret"
    /\ cli' = [cli EXCEPT !.pc = CliWait(caller[Main].runErr, cli.timeout)]
    /\ caller' = [caller EXCEPT ![Main] = IdleCaller]
    /\ UNCHANGED <<isRunning, currentScript, loop, nsessions, devlog, cvars, lvars, link>>

\* main.go:276-280: the user presses Enter and StopScript is called
CliEnter ==
    /\ cli.pc = "enter"
    /\ cli' = [cli EXCEPT !.pc = "stop"]
    /\ caller' = [caller EXCEPT ![Main] =
          [IdleCaller EXCEPT !.pc = "stop_lock", !.op = "stop"]]
    /\ UNCHANGED <<isRunning, currentScript, loop, nsessions, devlog, cvars, lvars, link>>

\* script.go:326-339: StopScript (its send is part of runLoopStop)
CliInStopScript ==
    /\ cli.pc = "stop"
    /\ \/ StopScriptCheck(Main)
       \/ StopScriptSleep(Main)

\* main.go:280-282, 288: StopScript has returned, "Script finished."
CliStopReturns ==
    /\ cli.pc = "stop"
    /\ caller[Main].pc = "ret"
    /\ cli' = [cli EXCEPT !.pc = "finished"]
    /\ caller' = [caller EXCEPT ![Main] = IdleCaller]
    /\ UNCHANGED <<isRunning, currentScript, loop, nsessions, devlog, cvars, lvars, link>>

\* main.go:285, 288: time.Sleep(timeout) is over, "Script finished."
CliSleepEnds ==
    /\ cli.pc = "sleep"
    /\ cli' = [cli EXCEPT !.pc = "finished"]
    /\ UNCHANGED <<vars, cvars, lvars, link>>

\* script.go:343-401: the loop goroutine, as long as the process lives
CliLoop(s) ==
    /\ ~Exited
    /\ \/ runLoopStatic(s)
       \/ runLoopRender(s)
       \/ runLoopTick(s)
       \/ runLoopStop(s, Main)
       \/ runLoopTimeout(s)
       \/ runLoopSetOff(s)
       \/ runLoopClear(s)

CliNext ==
    \/ CliRunScript
    \/ CliInRunScript
    \/ CliRunScriptGo
    \/ CliRunReturns
    \/ CliEnter
    \/ CliInStopScript
    \/ CliStopReturns
    \/ CliSleepEnds
    \/ \E s \in Sessions : CliLoop(s)

\* main.go:243: runCLIMode is entered with a fresh ScriptRunner (main.go:52)
CliInit ==
    /\ SchedulerIdle
    /\ CompilerIdle
    /\ LibIdle
    /\ LinkIdle
    /\ cli = [pc |-> "args", interval |-> 0, timeout |-> 0]

CliSpec == CliInit /\ [][CliNext]_<<vars, cvars, lvars, pvars>>

\* ========================================================= device link ====
\* part_000:258-319 (Yeelight.Connect, Yeelight.SendCommand). Commands are
\* sent one after the other (the scheduler serialises them); every command
\* dials a connection of its own and starts one reader goroutine. The channels
\* s and e are unbuffered: a send is one step with the select that receives
\* it, and a send that no select receives never ends.
\*   link.pc          the statement SendCommand has reached ("idle": not called)
\*   link.Persistent  the field of that name
\*   link.Conn        the connection yl.Conn refers to (0: nil)
\*   link.conns       the connections dialled so far
\*   link.cmds        per SendCommand call: its result and its reader
Commands == 1..MaxCommands

NewConn == [closed |-> FALSE, asked |-> FALSE, data |-> FALSE, eof |-> FALSE]

NewCommand == [result |-> "pending", reader |-> "none", conn |-> 0]

Current == Len(link.cmds)

\* a reader that read through a nil yl.Conn has brought the process down
Crashed == \E k \in DOMAIN link.cmds : link.cmds[k].reader = "panic"

\* part_000:278-280  if !yl.Persistent { defer yl.Conn.Close() }
DeferredClose(conns) ==
    IF link.Persistent \/ link.Conn = 0
    THEN conns
    ELSE [conns EXCEPT ![link.Conn].closed = TRUE]

\* SendCommand returns with result res; the deferred call runs
Leave(res) ==
    [link EXCEPT !.pc = "idle",
                 !.cmds[Current].result = res,
                 !.conns = DeferredClose(link.conns)]

\* part_000:272-273: SendCommand is called
SendCommand ==
    /\ link.pc = "idle"
    /\ ~Crashed
    /\ Current < MaxCommands
    /\ link' = [link EXCEPT !.pc = "connect",
                            !.cmds = Append(link.cmds, NewCommand)]
    /\ UNCHANGED <<vars, cvars, lvars, cli>>

\* part_000:258-269, 274-276: net.DialTimeout gives a new connection or an
\* error (and then a nil yl.Conn); on the error SendCommand returns before
\* its defer statement
Connect ==
    /\ link.pc = "connect"
    /\ ~Crashed
    /\ \E ok \in BOOLEAN :
          IF ok
          THEN link' = [link EXCEPT !.pc = "write",
                                    !.conns = Append(link.conns, NewConn),
                                    !.Conn = Len(link.conns) + 1]
          ELSE link' = [link EXCEPT !.pc = "idle",
                                    !.Conn = 0,
                                    !.cmds[Current].result = "connect_error"]
    /\ UNCHANGED <<vars, cvars, lvars, cli>>

\* part_000:282-289: the command is written to the connection, or the write
\* fails and SendCommand returns the error
Write ==
    /\ link.pc = "write"
    /\ ~Crashed
    /\ \E ok \in BOOLEAN :
          IF ok
          THEN link' = [link EXCEPT !.pc = "go",
                                    !.conns[link.Conn].asked = TRUE]
          ELSE link' = Leave("write_error")
    /\ UNCHANGED <<vars, cvars, lvars, cli>>

\* part_000:291-304: the channels are made and the reader goroutine is
\* created; SendCommand goes on to its select
GoReader ==
    /\ link.pc = "go"
    /\ ~Crashed
    /\ link' = [link EXCEPT !.pc = "select", !.cmds[Current].reader = "new"]
    /\ UNCHANGED <<vars, cvars, lvars, cli>>

\* part_000:295: the reader starts to run and reads the field yl.Conn as it
\* is at that moment
ReaderStart(k) ==
    /\ k \in DOMAIN link.cmds
    /\ ~Crashed
    /\ link.cmds[k].reader = "new"
    /\ link' = [link EXCEPT
          !.cmds[k].conn = link.Conn,
          !.cmds[k].reader = IF link.Conn = 0 THEN "panic" ELSE "read"]
    /\ UNCHANGED <<vars, cvars, lvars, cli>>

\* part_000:296-297: ReadString returns a line that has arrived, or an error
\* once the connection is closed on either side; until then it blocks
ReaderRead(k) ==
    /\ k \in DOMAIN link.cmds
    /\ ~Crashed
    /\ link.cmds[k].reader = "read"
    /\ LET c == link.cmds[k].conn IN
       \/ /\ link.conns[c].data
          /\ link' = [link EXCEPT !.conns[c].data = FALSE,
                                  !.cmds[k].reader = "send_s"]
       \/ /\ ~link.conns[c].data
          /\ link.conns[c].closed \/ link.conns[c].eof
          /\ link' = [link EXCEPT !.cmds[k].reader = "send_e"]
    /\ UNCHANGED <<vars, cvars, lvars, cli>>

\* part_000:300 with 311-313: the reader's send on s meets the select;
\* SendCommand returns the response and no error
SelectResponse ==
    /\ link.pc = "select"
    /\ ~Crashed
    /\ link.cmds[Current].reader = "send_s"
    /\ link' = [Leave("response") EXCEPT !.cmds[Current].reader = "close"]
    /\ UNCHANGED <<vars, cvars, lvars, cli>>

\* part_000:298 with 314-315: the reader's send on e meets the select;
\* SendCommand returns the read error
SelectError ==
    /\ link.pc = "select"
    /\ ~Crashed
    /\ link.cmds[Current].reader = "send_e"
    /\ link' = [Leave("read_error") EXCEPT !.cmds[Current].reader = "close"]
    /\ UNCHANGED <<vars, cvars, lvars, cli>>

\* part_000:306-308, 316-317: the response timeout fires; SendCommand returns
\* an empty Response and no error
SelectTimeout ==
    /\ link.pc = "select"
    /\ ~Crashed
    /\ link' = Leave("empty")
    /\ UNCHANGED <<vars, cvars, lvars, cli>>

\* part_000:302-304: close(s); close(e); the goroutine ends
ReaderClose(k) ==
    /\ k \in DOMAIN link.cmds
    /\ ~Crashed
    /\ link.cmds[k].reader = "close"
    /\ link' = [link EXCEPT !.cmds[k].reader = "ended"]
    /\ UNCHANGED <<vars, cvars, lvars, cli>>

\* the lamp answers a command written to connection c
DeviceResponds(c) ==
    /\ c \in DOMAIN link.conns
    /\ ~Crashed
    /\ link.conns[c].asked
    /\ ~link.conns[c].closed /\ ~link.conns[c].eof
    /\ link' = [link EXCEPT !.conns[c].asked = FALSE, !.conns[c].data = TRUE]
    /\ UNCHANGED <<vars, cvars, lvars, cli>>

\* the lamp closes connection c, or the connection breaks
DeviceCloses(c) ==
    /\ c \in DOMAIN link.conns
    /\ ~Crashed
    /\ ~link.conns[c].closed /\ ~link.conns[c].eof
    /\ link' = [link EXCEPT !.conns[c].eof = TRUE]
    /\ UNCHANGED <<vars, cvars, lvars, cli>>

LinkNext ==
    \/ SendCommand
    \/ Connect
    \/ Write
    \/ GoReader
    \/ SelectResponse
    \/ SelectError
    \/ SelectTimeout
    \/ \E k \in Commands : ReaderStart(k)
    \/ \E k \in Commands : ReaderRead(k)
    \/ \E k \in Commands : ReaderClose(k)
    \/ \E c \in Commands : DeviceResponds(c)
    \/ \E c \in Commands : DeviceCloses(c)

\* part_000:14-21: a Yeelight value with no connection yet; Persistent is
\* false in this program (main.go:52) and may be set by another user
LinkInit ==
    /\ SchedulerIdle
    /\ CompilerIdle
    /\ LibIdle
    /\ CliIdle
    /\ \E p \in BOOLEAN : link = [NoLink EXCEPT !.pc = "idle", !.Persistent = p]

\* SendCommand and the readers are goroutines that run when they can; the
\* timer of the select fires, so a select does not wait for ever. Nothing
\* obliges the lamp to answer or to close, nor anybody to send a new command.
LinkFairness ==
    /\ WF_link(Connect \/ Write \/ GoReader)
    /\ WF_link(SelectResponse \/ SelectError \/ SelectTimeout)
    /\ \A k \in Commands :
          WF_link(ReaderStart(k) \/ ReaderRead(k) \/ ReaderClose(k))

LinkSpec == LinkInit /\ [][LinkNext]_<<vars, cvars, lvars, pvars>> /\ LinkFairness


\* ------------------------------------------------------------ claims ----
ActiveLoops == {s \in Sessions : LoopActive(s)}

\* C1: at most one playback loop exists at any time, under any interleaving
\* of concurrent RunScript and StopScript calls.
C1_AtMostOneLoop == Cardinality(ActiveLoops) <= 1

\* a second session is playing after the first one ended, and a concurrent
\* RunScript has just been rejected
C1_Witness ==
    /\ loop[1].pc = "done"
    /\ LoopActive(2)
    /\ \E c \in Callers : caller[c].pc = "ret" /\ caller[c].runErr = "already"

\* C2: whenever a playback loop ends, by the stop signal or the timeout, in
\* static or in animated mode, the last command it issued is the one power-off
\* of its session, issued after its last frame, and the step that ends it
\* leaves the running flag cleared.
C2_ExitPowersOffThenClears ==
    [][\A s \in Sessions :
          (LoopActive(s) /\ ~LoopActive(s)')
          => /\ loop'[s].pc = "done"
             /\ isRunning' = FALSE
             /\ CmdsOf(s) # << >>
             /\ CmdsOf(s)[Len(CmdsOf(s))].cmd = "off"
             /\ Len(SelectSeq(CmdsOf(s), LAMBDA e : e.cmd = "off")) = 1
             /\ FramesOf(s) # << >>]_vars

\* an animated session has ended: two frames, then power-off, flag cleared
C2_Witness ==
    \E s \in Sessions :
       /\ loop[s].pc = "done"
       /\ ~isRunning
       /\ Len(FramesOf(s)) >= 2
       /\ devlog[Len(devlog)] = Cmd(s, "off", << >>)

\* C3 (as claimed): when StopScript returns without error, the loop it
\* cancelled has exited (power-off issued, running flag cleared).
C3_StopReturnsAfterLoopExit ==
    \A c \in Callers :
       (caller[c].pc = "ret" /\ caller[c].op = "stop" /\ caller[c].stopErr = "nil")
       => loop[caller[c].cancelled].pc = "done"

\* C4: a RunScript call that finds the running flag set returns the
\* already-running error and changes neither the flag, the current script,
\* any loop (cursor, interval, timeout) nor the device log, and opens no file.
C4_RejectedRunChangesNothing ==
    [][\A c \in Callers :
          (caller[c].pc = "run_lock" /\ isRunning /\ caller'[c] # caller[c])
          => /\ caller'[c].pc = "ret"
             /\ caller'[c].runErr = "already"
             /\ UNCHANGED <<isRunning, currentScript, loop, nsessions, devlog>>]_vars

\* a RunScript was rejected while an animated session is in mid-cycle
C4_Witness ==
    \E c \in Callers, s \in Sessions :
       /\ caller[c].pc = "ret" /\ caller[c].runErr = "already"
       /\ loop[s].pc = "select" /\ loop[s].frameIndex = 1

\* C5: a StopScript call that finds the running flag clear returns the
\* not-running error at once: it does not go on to the stop channel, and
\* changes neither the flag, any loop nor the device log.
C5_IdleStopIsRejected ==
    [][\A c \in Callers :
          (caller[c].pc = "stop_lock" /\ ~isRunning /\ caller'[c] # caller[c])
          => /\ caller'[c].stopErr = "notrunning"
             /\ caller'[c].pc \in {"ret", "run_lock"}
             /\ UNCHANGED <<isRunning, currentScript, loop, nsessions, devlog>>]_vars

\* a StopScript call on an idle scheduler has returned not-running
C5_Witness ==
    \E c \in Callers :
       /\ caller[c].pc = "ret" /\ caller[c].op = "stop"
       /\ caller[c].stopErr = "notrunning"
       /\ ~isRunning

\* C6: when SetOn or SetDirectMode fails, RunScript returns the error with
\* the running flag cleared, no loop launched and no frame sent.
C6_FailedStartLeavesIdle ==
    [][\A c \in Callers :
          (/\ caller[c].pc \in {"run_on", "run_direct"}
           /\ caller'[c].runErr \in {"poweron", "direct"})
          => /\ caller'[c].pc = "ret"
             /\ isRunning' = FALSE
             /\ loop' = loop
             /\ loop[caller[c].sid].pc = "none"
             /\ FramesOf(caller[c].sid)' = << >>]_vars

\* session 1 failed at SetDirectMode; a later RunScript got session 2 playing
C6_Witness ==
    /\ nsessions = 2
    /\ loop[1].pc = "none"
    /\ LoopActive(2)
    /\ \E c \in Callers : caller[c].pc = "ret" /\ caller[c].runErr = "direct"

\* C7 (as claimed): an HTTP run request whose StopScript stopped a playing
\* session never ends with the already-running failure.
C7_HttpRunReplacesSession ==
    \A c \in Callers :
       (caller[c].pc = "ret" /\ caller[c].op = "http" /\ caller[c].stopErr = "nil")
       => caller[c].runErr # "already"

\* C8: a session with interval 0 sends no frame before its one render and
\* after it exactly one, frame 0 of its script; it never takes the animated
\* path; and when it has ended its last command is the power-off.
C8_StaticSendsFrameZeroOnce ==
    \A s \in Sessions :
       (LoopActive(s) /\ loop[s].interval = 0)
       => /\ loop[s].pc \in {"begin", "wait", "off", "clear"}
          /\ loop[s].pc = "begin" => FramesOf(s) = << >>
          /\ loop[s].pc # "begin" =>
                /\ Len(FramesOf(s)) = 1
                /\ FramesOf(s)[1].arg = currentScript.Frames[1]
          /\ loop[s].pc = "clear" => devlog[Len(devlog)] = Cmd(s, "off", << >>)

\* a static session of a two-frame script has been ended and powered off
C8_Witness ==
    \E s \in Sessions :
       /\ loop[s].interval = 0 /\ loop[s].pc = "clear"
       /\ Len(currentScript.Frames) = 2
       /\ Len(FramesOf(s)) = 1

\* C9: in a session with interval > 0 over N frames the k-th render
\* (k = 0, 1, ...) sends frame k mod N, and the cursor stays in 0..N-1.
C9_FramesAreCyclic ==
    \A s \in Sessions :
       (LoopActive(s) /\ loop[s].interval > 0)
       => LET N == Len(currentScript.Frames)
              F == FramesOf(s)
          IN /\ N >= 1
             /\ \A k \in 0..(Len(F) - 1) :
                   F[k + 1].arg = currentScript.Frames[(k % N) + 1]
             /\ loop[s].frameIndex \in 0..(N - 1)
             /\ loop[s].frameIndex = Len(F) % N

\* an animated session over two frames has wrapped: frames 0, 1, 0 sent
C9_Witness ==
    \E s \in Sessions :
       /\ loop[s].interval > 0 /\ loop[s].pc = "select"
       /\ Len(currentScript.Frames) = 2
       /\ Len(FramesOf(s)) = 3

\* C10 (as claimed): from the moment StopScript has found an animated session
\* running (one frame or more already sent) to the exit of that session's
\* loop, at most one more frame is sent.
C10_AtMostOneFrameAfterStop ==
    \A c \in Callers :
       (/\ caller[c].pc = "stop_sleep"
        /\ caller[c].seen >= 1
        /\ caller[c].cancelled = caller[c].observed
        /\ loop[caller[c].cancelled].pc \in {"off", "clear"}
        /\ loop[caller[c].cancelled].interval > 0)
       => Len(FramesOf(caller[c].cancelled)) - caller[c].seen <= 1

\* C11: a device-link error while rendering a frame never ends the session:
\* the step that reports the error leaves the loop waiting (static mode) or at
\* its select with the cursor advanced (animated mode), and a loop starts its
\* exit only from a wait, by the stop signal or by an armed timeout.
C11_RenderErrorDoesNotEndSession ==
    [][\A s \in Sessions :
          /\ (~loop[s].errPrinted /\ loop'[s].errPrinted)
             => /\ loop'[s].pc \in {"wait", "select"}
                /\ loop'[s].pc = "select"
                   => loop'[s].frameIndex =
                         NextFrameIndex(loop[s].frameIndex,
                                        Len(currentScript.Frames))
          /\ (loop[s].pc # "off" /\ loop'[s].pc = "off")
             => /\ loop[s].pc \in {"wait", "select"}
                /\ \/ \E c \in Callers : /\ caller[c].pc = "stop_send"
                                          /\ caller'[c].pc = "stop_sleep"
                   \/ loop[s].timeout > 0]_vars

\* the only render so far of an animated session failed, and the loop has taken
\* the next tick: it is about to render the second frame of its script
C11_Witness ==
    \E s \in Sessions :
       /\ loop[s].errPrinted
       /\ loop[s].pc = "render"
       /\ Len(FramesOf(s)) = 1
       /\ Len(currentScript.Frames) = 2
       /\ loop[s].frameIndex = 1


\* C12: a session whose timeout is 0 never ends on its own, in static or in
\* animated mode: its loop leaves its wait for the exit only in the step in
\* which a StopScript caller hands it the stop signal; the timeout exit is
\* taken only by sessions whose timeout is greater than 0.
C12_ZeroTimeoutEndsOnlyByStop ==
    [][\A s \in Sessions :
          (loop[s].pc \in {"begin", "render", "wait", "select"}
             /\ loop[s].timeout = 0
             /\ loop'[s].pc \notin {"begin", "render", "wait", "select"})
          => /\ loop'[s].pc = "off"
             /\ \E c \in Callers : /\ caller[c].pc = "stop_send"
                                   /\ caller'[c].pc = "stop_sleep"
                                   /\ caller'[c].cancelled = s]_vars

\* an animated session with timeout 0 has rendered every frame the bound
\* allows and is ending because a StopScript call reached it
C12_Witness ==
    \E s \in Sessions, c \in Callers :
       /\ loop[s].timeout = 0
       /\ ~IsStatic(loop[s].interval)
       /\ Len(FramesOf(s)) = MaxRenders
       /\ loop[s].pc = "off"
       /\ caller[c].pc = "stop_sleep"
       /\ caller[c].cancelled = s

\* C13: the commands of one session are, in this order, power on, enter direct
\* mode, one or more frames, power off, each of the first two and the last at
\* most once; no frame is sent while the RunScript call is still before its
\* launch of the loop, and none follows the session's power off.
C13_SessionCommandOrder ==
    \A s \in Sessions :
       LET cmds == CmdsOf(s) IN
       /\ Len(cmds) >= 1 => cmds[1].cmd = "on"
       /\ Len(cmds) >= 2 => cmds[2].cmd = "direct"
       /\ \A i \in 3..Len(cmds) :
             \/ cmds[i].cmd = "frame"
             \/ cmds[i].cmd = "off" /\ i = Len(cmds) /\ i >= 4
       /\ FramesOf(s) # << >>
          => /\ loop[s].pc # "none"
             /\ \A c \in Callers :
                   caller[c].sid = s
                   => caller[c].pc \notin {"run_parse", "run_on",
                                           "run_direct", "run_go"}
       /\ loop[s].pc \in {"clear", "done"} /\ cmds # << >>
          => cmds[Len(cmds)].cmd = "off"

\* a session has sent power on, direct mode, two frames and power off
C13_Witness ==
    \E s \in Sessions :
       /\ Len(CmdsOf(s)) = 5
       /\ CmdsOf(s)[3].cmd = "frame"
       /\ CmdsOf(s)[4].cmd = "frame"
       /\ CmdsOf(s)[5].cmd = "off"

\* ------------------------------------------- claims on the compiler ----
\* the kinds of line the specification of the script format tells apart
IsBlankLine(line) == line = << >>
IsCommentLine(line) == line # << >> /\ IsComment(line)
IsCommandLine(line) == line # << >> /\ ~IsComment(line)

\* ParseScript has returned: a Script, or one of its errors
Returned == result.pc = "done" /\ result.err # "panic"
ParseErrors == {"requires", "coordinate", "number", "color", "unknown"}

\* C14: ParseScript either fails, returning no Script, or returns a Script
\* with at least one frame; an input made only of blank and comment lines
\* fails with the empty-script error.
C14_ScriptHasFrame ==
    Returned =>
       /\ result.err = "nil" => Len(result.script) >= 1
       /\ result.err # "nil" => result.script = << >>
       /\ (\A i \in DOMAIN input :
              IsBlankLine(input[i]) \/ IsCommentLine(input[i]))
          => result.err = "empty"

\* a file of a comment, a blank line and a comment was refused as empty
C14_Witness ==
    /\ Returned
    /\ Len(input) = 3
    /\ IsCommentLine(input[1]) /\ IsBlankLine(input[2]) /\ IsCommentLine(input[3])
    /\ result.err = "empty"

\* the command lines that open a group: no command line lies between the
\* nearest blank line before them and them
GroupOpeners(lines) ==
    {i \in DOMAIN lines :
       /\ IsCommandLine(lines[i])
       /\ \A j \in 1..(i - 1) :
             IsCommandLine(lines[j])
             => \E b \in (j + 1)..(i - 1) : IsBlankLine(lines[b])}

\* C15: the number of frames of a compiled script is the number of maximal
\* groups of lines, separated by blank lines, that hold at least one command
\* line: leading and consecutive blank lines add no frame, comment lines
\* neither cut a frame nor count as content, and the content pending at the
\* end of the input is emitted.
C15_FrameCountIsGroupCount ==
    (Returned /\ result.err = "nil")
    => Len(result.script) = Cardinality(GroupOpeners(input))

\* a blank line, a command and a comment compile to one frame
C15_Witness ==
    /\ Returned
    /\ result.err = "nil"
    /\ Len(input) = 3
    /\ IsBlankLine(input[1]) /\ IsCommandLine(input[2]) /\ IsCommentLine(input[3])
    /\ Len(result.script) = 1

\* the k-th group's opener, the line after its last, and its command lines
GroupOpener(lines, k) ==
    CHOOSE i \in GroupOpeners(lines) :
       Cardinality({j \in GroupOpeners(lines) : j <= i}) = k
GroupEnd(lines, k) ==
    LET blanks == {b \in DOMAIN lines :
                     b > GroupOpener(lines, k) /\ IsBlankLine(lines[b])}
    IN IF blanks = {} THEN Len(lines) + 1
       ELSE CHOOSE b \in blanks : \A c \in blanks : b <= c
GroupCommands(lines, k) ==
    SelectSeq(SubSeq(lines, GroupOpener(lines, k), GroupEnd(lines, k) - 1),
              IsCommandLine)

\* the commands applied in order to a matrix
RECURSIVE ApplyCommands(_, _)
ApplyCommands(cmds, matrix) ==
    IF cmds = << >> THEN matrix
    ELSE ApplyCommands(Tail(cmds), ExecCommand(matrix, Head(cmds)).matrix)

KnownCommands ==
    {FILL, CLEAR, PIXEL, ROW, COL, CIRCLE, RING, RECT, LINE, CROSS, ROTATE,
     SHIFT, DIM}

ArgKinds(cmd) ==
    IF cmd = FILL THEN <<"color">>
    ELSE IF cmd = CLEAR THEN << >>
    ELSE IF cmd = PIXEL THEN <<"coord", "coord", "color">>
    ELSE IF cmd \in {ROW, COL} THEN <<"coord", "color">>
    ELSE IF cmd \in {CIRCLE, RING, CROSS} THEN <<"coord", "coord", "int", "color">>
    ELSE IF cmd \in {RECT, LINE} THEN <<"coord", "coord", "coord", "coord", "color">>
    ELSE IF cmd = ROTATE THEN <<"number">>
    ELSE IF cmd = SHIFT THEN <<"direction">>
    ELSE <<"factor">>

IsHexString(str) == \A i \in DOMAIN str : DigitValue(str[i], 16) >= 0

\* one of the 10 named colors, '#' and 6 hex digits, or 6 hex digits
ValidColor(token) ==
    LET str == ToLower(token) IN
    \/ \E p \in NamedColors : p[1] = str
    \/ Len(str) = 7 /\ Head(str) = "#" /\ IsHexString(Tail(str))
    \/ Len(str) = 6 /\ IsHexString(str)

ValidArg(kind, token) ==
    IF kind = "coord" THEN Atoi(token).ok /\ Atoi(token).val \in 0..4
    ELSE IF kind = "int" THEN Atoi(token).ok
    ELSE IF kind = "number" THEN ParseFloat(token).ok
    ELSE IF kind = "factor"
       THEN /\ ParseFloat(token).ok
            /\ ParseFloat(token).num >= 0
            /\ ParseFloat(token).num <= ParseFloat(token).den
    ELSE IF kind = "direction"
       THEN ToUpper(token) \in {<<"U", "P">>, <<"D", "O", "W", "N">>,
                                <<"L", "E", "F", "T">>, <<"R", "I", "G", "H", "T">>}
    ELSE ValidColor(token)

CommandOf(line) == ToUpper(line[1])

\* the arguments of the line that are there, each with its kind
GivenArgs(line) ==
    {i \in 1..(Len(line) - 1) : i <= Len(ArgKinds(CommandOf(line)))}

WrongCount(line) ==
    /\ CommandOf(line) \in KnownCommands
    /\ Len(line) - 1 # Len(ArgKinds(CommandOf(line)))

\* an argument of kind among kinds is not well formed
Malformed(line, kinds) ==
    /\ CommandOf(line) \in KnownCommands
    /\ \E i \in GivenArgs(line) :
          /\ ArgKinds(CommandOf(line))[i] \in kinds
          /\ ~ValidArg(ArgKinds(CommandOf(line))[i], line[i + 1])

ArgumentKinds == {"coord", "int", "number", "factor", "direction", "color"}

Offending(line) ==
    /\ IsCommandLine(line)
    /\ \/ CommandOf(line) \notin KnownCommands
       \/ WrongCount(line)
       \/ Malformed(line, ArgumentKinds)

\* ParseScript returned a line-numbered error for line i
FailedAt(i) ==
    /\ Returned
    /\ result.err \in ParseErrors
    /\ result.line = i
    /\ result.script = << >>

\* C17: when compilation fails on a command line, the error names the 1-based
\* index of that line among all lines of the input, blank and comment lines
\* counted; that line is the first offending line of the input; and no Script
\* is returned.
C17_ErrorNamesFirstOffendingLine ==
    (Returned /\ result.err \in ParseErrors)
    => /\ result.line \in DOMAIN input
       /\ result.script = << >>
       /\ Offending(input[result.line])
       /\ \A j \in 1..(result.line - 1) : ~Offending(input[j])

\* C18: every command line whose argument count is wrong, too few or surplus
\* tokens, or which has a malformed argument, such as a SHIFT direction other
\* than UP, DOWN, LEFT, RIGHT, makes compilation fail with a ParseError for
\* that line.
C18_WrongArgumentsFail ==
    \A i \in 1..lineNum :
       (IsCommandLine(input[i])
          /\ \/ WrongCount(input[i])
             \/ Malformed(input[i], ArgumentKinds \ {"color"}))
       => FailedAt(i)

\* C19: a color token that is none of the 10 named colors, '#' followed by 6
\* hex digits, or 6 hex digits makes compilation fail for its line; no cell is
\* painted for it.
C19_InvalidColorFails ==
    \A i \in 1..lineNum :
       (IsCommandLine(input[i]) /\ Malformed(input[i], {"color"}))
       => FailedAt(i)

\* a coordinate argument of the line is a number outside 0..4
CoordinateOutside(line) ==
    /\ CommandOf(line) \in {PIXEL, ROW, COL, CIRCLE, RING, RECT, LINE, CROSS}
    /\ \E i \in GivenArgs(line) :
          /\ ArgKinds(CommandOf(line))[i] = "coord"
          /\ Atoi(line[i + 1]).ok
          /\ Atoi(line[i + 1]).val \notin 0..4

\* C20: for PIXEL, ROW, COL, CIRCLE, RING, RECT, LINE and CROSS a coordinate
\* argument outside 0..4 makes compilation fail with a ParseError for that
\* line, and no command ever writes to a row or column outside the grid.
C20_CoordinatesStayInGrid ==
    /\ ~offGrid
    /\ \A i \in 1..lineNum :
          (IsCommandLine(input[i]) /\ CoordinateOutside(input[i]))
          => FailedAt(i)

\* CROSS with row 5 on the second line was refused with a coordinate error
C20_Witness ==
    /\ FailedAt(2)
    /\ result.err = "coordinate"
    /\ CommandOf(input[2]) = CROSS
    /\ CoordinateOutside(input[2])

\* ----------------------------------------- claims on the primitives ----
\* the calls of SetColor, SetHex and GetColor that have ended
AccessEnded == call.fn \in {"SetColor", "SetHex", "GetColor"} /\ ret.done

\* C21: a matrix get or set with a Vector whose row or column is outside
\* 0..4 fails explicitly and leaves every cell as it was; an out-of-range
\* column never reaches a cell of another row.
C21_OutOfRangeAccessFails ==
    (AccessEnded /\ call.v \notin Grid) =>
        (ret.panic /\ ret.out = call.matrix)

\* ------------------------------- claims on the compiled colors (ParseSpec) ----
\* a color value of 24 bits
Is24Bit(value) == value >= 0 /\ value < 16777216

\* the matrices ParseScript holds: the one in progress and the frames emitted
LiveMatrices == {currentMatrix} \cup {frames[k] : k \in DOMAIN frames}

\* C22: after any sequence of script commands, every cell of the matrix in
\* progress and of every compiled frame holds a color value in 0..0xFFFFFF.
C22_CellsHold24BitColors ==
    /\ \A a \in LiveMatrices \cap DOMAIN arrays :
          \A i \in Cells : Is24Bit(arrays[a][i])
    /\ \A k \in DOMAIN result.script :
          \A i \in Cells : Is24Bit(result.script[k][i])

\* --------------------------------- claims on the primitives (LibSpec) ----
\* a channel c in 0..255 scaled by factor and truncated
ScaledChannel(c, factor) == (c * factor.num) \div factor.den

\* C23: DIM with a factor in [0, 1] replaces, in every cell, each of the three
\* channels c by floor(c * factor), whatever the other two channels are and
\* also for c >= 128.
C23_DimScalesEachChannel ==
    (call.fn = "dimMatrix" /\ ret.done) =>
        \A i \in Cells :
           LET old == ToRGB(call.matrix[i])
               new == ToRGB(ret.out[i])
           IN /\ new.r = ScaledChannel(old.r, call.factor)
              /\ new.g = ScaledChannel(old.g, call.factor)
              /\ new.b = ScaledChannel(old.b, call.factor)

\* the 24-bit packing of three channels
Packed(r, g, b) == (r * 256 + g) * 256 + b

\* C24: for all r, g, b in 0..255, the color built from (r, g, b) is
\* r<<16 | g<<8 | b, and ToRGB of it returns (r, g, b).
C24_RGBRoundTrip ==
    (call.fn = "MakeColorRGB" /\ ret.done) =>
        /\ ret.out.Value = Packed(call.r, call.g, call.b)
        /\ ret.out.rgb = [r |-> call.r, g |-> call.g, b |-> call.b]

\* a character's place in the 64-symbol alphabet, counted from 0
DigitOf(ch) == IndexOf(ch, ASCII_TABLE) - 1

\* C25: for every color value v in 0..0xFFFFFF, ToASCII returns exactly four
\* characters of the 64-symbol alphabet, and their digit values d3 d2 d1 d0
\* give v = d3*64^3 + d2*64^2 + d1*64 + d0.
C25_ToASCIIIsBase64Digits ==
    (call.fn = "ToASCII" /\ ret.done /\ Is24Bit(call.Value)) =>
        /\ ~ret.panic
        /\ Len(ret.out) = 4
        /\ \A k \in 1..4 : DigitOf(ret.out[k]) \in 0..63
        /\ call.Value = ((DigitOf(ret.out[1]) * 64 + DigitOf(ret.out[2])) * 64
                            + DigitOf(ret.out[3])) * 64 + DigitOf(ret.out[4])

\* the largest 24-bit value has been encoded, as four times the last symbol
C25_Witness ==
    /\ call.fn = "ToASCII"
    /\ call.Value = 16777215
    /\ ret.done
    /\ ret.out = <<"/", "/", "/", "/">>

\* ------------------------------- claims on the compiled frames (ParseSpec) ----
\* the characters 4i+1..4i+4 of a frame's text
Encoding(text, i) == SubSeq(text, 4 * i + 1, 4 * i + 4)

\* C26: every frame produced by compilation has exactly 25 cells, whatever
\* commands built it, and the text sent to the device for it is the
\* 100-character concatenation of the cells' 4-character encodings, row by
\* row.
C26_FrameTextIs100Characters ==
    \A k \in DOMAIN result.script :
       LET frame == result.script[k]
           sent  == SetMatrix(frame)
       IN /\ DOMAIN frame = 0..24
          /\ ~sent.panic
          /\ Len(sent.text) = 100
          /\ \A row \in 0..4, col \in 0..4 :
                LET cell == ToASCII(frame[row * 5 + col]) IN
                /\ ~cell.panic
                /\ Encoding(sent.text, row * 5 + col) = cell.text

\* the scanner is about to read a ROTATE line whose angle is a number
RotateLine ==
    /\ Scanning
    /\ IsCommandLine(Line)
    /\ ToUpper(Line[1]) = ROTATE
    /\ Len(Line) >= 2
    /\ ParseFloat(Line[2]).ok

\* the rotation that drops every target outside the grid: a cell holds the
\* color of the last source cell, in row order, sent to it, or black
RotateDiscarding(matrix, degrees) ==
    [j \in Cells |->
       LET from == {i \in Cells : /\ RotateTarget(i, degrees) \in Grid
                                  /\ Index(RotateTarget(i, degrees)) = j}
       IN IF from = {} THEN 0
          ELSE matrix[CHOOSE i \in from : \A h \in from : h <= i]]

\* C27: in Rotate, a source cell whose rotated, rounded, absolute-valued
\* target is outside the grid (cell (4,4) under ROTATE 45) is discarded: the
\* command does not fail, no cell is written for it, and the result is a
\* 25-cell matrix.
C27_RotateDiscardsOffGridTargets ==
    [][RotateLine =>
         /\ result'.err = "nil"
         /\ DOMAIN arrays'[currentMatrix'] = 0..24
         /\ arrays'[currentMatrix'] =
               RotateDiscarding(arrays[currentMatrix], ParseFloat(Line[2]))
      ]_cvars

\* --------------------------------- claims on the rasterizer (LibSpec) ----
\* drawLine has returned
LineDrawn == call.fn = "drawLine" /\ ret.done

\* the cells whose color the call changed
ChangedCells == {i \in Cells : ret.out[i] # call.matrix[i]}

\* the larger of two numbers
Larger(a, b) == IF a >= b THEN a ELSE b

\* C28: for all endpoints (x1,y1), (x2,y2) in 0..4, drawLine terminates and
\* paints exactly max(|x2-x1|, |y2-y1|) + 1 cells, both endpoints among them,
\* and leaves every other cell unchanged; from (0,0) to (4,4) these are the
\* five cells of the diagonal.
C28_LinePaintsLongerSpanPlusOne ==
    LineDrawn =>
        /\ \A i \in ChangedCells : ret.out[i] = Hex(call.hex)
        /\ Cardinality(ChangedCells) =
              Larger(abs(call.x2 - call.x1), abs(call.y2 - call.y1)) + 1
        /\ {call.y1 * 5 + call.x1, call.y2 * 5 + call.x2} \subseteq ChangedCells
        /\ (call.x1 = 0 /\ call.y1 = 0 /\ call.x2 = 4 /\ call.y2 = 4) =>
              ChangedCells = {0, 6, 12, 18, 24}

\* the line from (0,0) to (4,2) has been drawn: five cells over three rows
C28_Witness ==
    /\ LineDrawn
    /\ call.x1 = 0 /\ call.y1 = 0 /\ call.x2 = 4 /\ call.y2 = 2
    /\ Cardinality(ChangedCells) = 5
    /\ {i \div 5 : i \in ChangedCells} = {0, 1, 2}

\* shiftMatrix has returned
Shifted == call.fn = "shiftMatrix" /\ ret.done

\* the cell of a matrix at a row and column
CellAt(matrix, row, col) == matrix[row * 5 + col]

\* the row and column of the neighbour a cell takes its value from
NeighbourRow(row) ==
    IF call.direction = <<"U", "P">> THEN row + 1
    ELSE IF call.direction = <<"D", "O", "W", "N">> THEN row - 1
    ELSE row
NeighbourCol(col) ==
    IF call.direction = <<"L", "E", "F", "T">> THEN col + 1
    ELSE IF call.direction = <<"R", "I", "G", "H", "T">> THEN col - 1
    ELSE col

\* C29: SHIFT UP, DOWN, LEFT or RIGHT gives every cell the value of its
\* neighbour opposite the shift direction and fills the vacated row or column
\* with black, without wraparound; after SHIFT UP row k holds the old row k+1
\* for k = 0..3 and row 4 is black.
C29_ShiftMovesCellsAndFillsBlack ==
    Shifted =>
        /\ \A row \in 0..4, col \in 0..4 :
              CellAt(ret.out, row, col) =
                 IF NeighbourRow(row) \in 0..4 /\ NeighbourCol(col) \in 0..4
                 THEN CellAt(call.matrix, NeighbourRow(row), NeighbourCol(col))
                 ELSE 0
        /\ call.direction = <<"U", "P">> =>
              /\ \A k \in 0..3, col \in 0..4 :
                    CellAt(ret.out, k, col) = CellAt(call.matrix, k + 1, col)
              /\ \A col \in 0..4 : CellAt(ret.out, 4, col) = 0

\* SHIFT UP of the matrix 1..25: row 0 holds 6..10 and row 4 is black, where
\* the old row 4 held 21..25
C29_Witness ==
    /\ Shifted
    /\ call.direction = <<"U", "P">>
    /\ call.matrix = Numbered
    /\ \A col \in 0..4 : CellAt(ret.out, 0, col) = 6 + col
    /\ \A col \in 0..4 : CellAt(ret.out, 4, col) = 0

\* ---------------------------------- claims on the front end (LibSpec) ----
\* a run request has been turned into the arguments of RunScript
RunRequested == call.fn \in {"handleRunScript", "runCLIMode"} /\ ret.done

\* the interval the request gives, empty if it gives none
GivenInterval ==
    IF call.fn = "handleRunScript" THEN call.interval
    ELSE IF Len(call.args) > 1 THEN call.args[2]
    ELSE << >>

\* C30: the front end hands the scheduler the requested interval unchanged
\* for every value >= 0, so that a run request with interval 0 starts a
\* static single-frame session; the 500 ms default is used only when no
\* interval is given.
C30_IntervalHandedOverUnchanged ==
    RunRequested =>
        /\ GivenInterval = << >> => ret.out.interval = 500
        /\ (GivenInterval # << >> /\ Atoi(GivenInterval).ok
               /\ Atoi(GivenInterval).val >= 0) =>
              /\ ret.out.interval = Atoi(GivenInterval).val
              /\ (Atoi(GivenInterval).val = 0) = IsStatic(ret.out.interval)

\* --------------------------------- claims on termination (FairSpec) ----
\* caller c is inside StopScript
InStopScript(c) == caller[c].pc \in {"stop_lock", "stop_send", "stop_sleep"}

\* C31: every StopScript call eventually returns, with the not-running error
\* or with success, whatever the session's timeout, a RunScript that is
\* starting or failing, and other StopScript calls do meanwhile; no caller
\* stays blocked on the stop channel for ever.
C31_StopScriptReturns ==
    \A c \in Callers : InStopScript(c) ~> ~InStopScript(c)

\* ------------------------------------ claims on the sessions (Spec) ----
\* C32: a stop signal raised by a StopScript call that observed session A as
\* running is taken only by session A's loop; it never ends a session B
\* started later on the same ScriptRunner.
C32_StopSignalEndsObservedSession ==
    \A c \in Callers :
       caller[c].pc = "stop_sleep" =>
          caller[c].cancelled = caller[c].observed

\* C33: on one ScriptRunner the power-off that ends a session is issued
\* before the power-on of any later session: the running flag is cleared
\* only after power-off has returned, so the start commands of a new session
\* are never followed by a power-off left over from the session before.
C33_PowerOffBeforeNextPowerOn ==
    /\ \A i \in DOMAIN devlog : devlog[i].sid = nsessions
    /\ \A s \in Sessions :
          LoopActive(s) => (isRunning /\ nsessions = s)
    /\ \A s \in Sessions :
          loop[s].pc = "clear" =>
             devlog[Len(devlog)] = Cmd(s, "off", << >>)

\* the second session has powered the lamp on and is playing, after the
\* loop of the first one has ended
C33_Witness ==
    /\ loop[1].pc = "done"
    /\ nsessions = 2
    /\ LoopActive(2)
    /\ devlog # << >>
    /\ devlog[1] = Cmd(2, "on", << >>)
    /\ \E i \in DOMAIN devlog : devlog[i].cmd = "frame"

\* ----------------------------- claims on the command-line mode (CliSpec) ----
\* the loop of main's session has taken its timeout and sent the power-off
PoweredOff == \E i \in DOMAIN devlog : devlog[i] = Cmd(Main, "off", << >>)

\* C34: in command-line mode with a timeout > 0 the program does not print
\* "Script finished." and exit before the loop of its session has observed the
\* timeout and issued the device power-off command.
C34_FinishedAfterPowerOff ==
    (cli.pc = "finished" /\ cli.timeout > 0) => PoweredOff

\* ----------------------------------- claims on the device link (LinkSpec) ----
\* SendCommand call k has created its reader goroutine
ReaderStarted(k) == k \in DOMAIN link.cmds /\ link.cmds[k].reader # "none"

\* the reader of call k has returned, or the whole process is gone
ReaderEnded(k) ==
    /\ k \in DOMAIN link.cmds
    /\ link.cmds[k].reader = "ended" \/ Crashed

\* C35: every response reader started by SendCommand terminates in the end,
\* whichever way SendCommand returns (response, read error, response
\* timeout); after a timeout the reader is not left blocked for ever on its
\* result channel.
C35_EveryReaderTerminates ==
    \A k \in Commands : ReaderStarted(k) ~> ReaderEnded(k)

====
